---- MODULE Spec2Model ----
(***************************************************************************)
(* Model of the provider orchestration engine of carter_api_integration:   *)
(* the per-supplier CircuitBreaker (app/services/circuit_breaker.py) and   *)
(* UniversalProvider.search_single / search_all                            *)
(* (app/services/universal_provider.py).                                   *)
(*                                                                         *)
(* Concurrency is asyncio: code between two awaits runs atomically, so     *)
(* every action below is one such segment.  Time is discrete and kept as   *)
(* differences, the only way the code uses time.time(): the time since a   *)
(* breaker's last failure, the rest of an asyncio.sleep and the rest of    *)
(* the wait_for deadline.  Timers fire at their instant, so Tick never     *)
(* steps over a due timer nor over a runnable task.                        *)
(***************************************************************************)
EXTENDS Integers, Sequences, FiniteSets, TLC

\* ---------------------------------------------------------------- bounds
\* a supplier answers with 0..MaxOffers offers
MaxOffers == 1
\* failures are not injected once a counter has reached this value
MaxFailureCount == 4
\* CircuitBreaker(reset_timeout=...): a positive constructor parameter,
\* measured in clock units of the model
reset_timeout == 1
\* criteria['search_timeout']: the fan-out deadline requested by the caller
search_timeout == 3
\* get_session creates no client beyond this number
MaxClients == 3
\* the longest time one hotel-mapping lookup of adapter.search holds the
\* event loop (the code waits for it up to 30 s per hotel name)
MaxLookup == 2
\* the longest meal_types list of a request
MaxMealTypes == 1
\* the most hotels of a response, and the most rates/rooms/offers of a hotel
MaxHotels == 2
MaxEntries == 1
\* the longest meal_types list of a request whose offers are filtered
MaxRequested == 2
\* the most offers a supplier has for a request
MaxCatalogue == 2

\* ------------------------------------------------------ program constants
\* Config.CIRCUIT_BREAKER_FAILURE_THRESHOLD
failure_threshold == 3
\* Config.MAX_RETRIES
max_retries == 3
\* Config.RETRY_BASE_DELAY
base_delay == 1

\* _last_failure_time is None
None == -1

\* Config.PROVIDERS in declaration order (dicts keep insertion order)
ConfigOrder == <<"rate_hawk", "goglobal", "tbo">>

Providers == {ConfigOrder[i] : i \in 1..Len(ConfigOrder)}

\* the tasks that call search_single directly and concurrently in
\* SpecBreaker (for one supplier, the units of as many concurrent requests)
Callers == {"c1", "c2"}

\* The explicit `providers` lists a caller sends (None and [] are both
\* falsy in search_all and are the empty sequence here): none, only a name
\* that is not loaded, one loaded name, a loaded and a not loaded name, both
\* loaded names against the configuration order, one name twice, and one
\* name twice followed by another.
ProviderLists ==
  { << >>,
    <<"tbo">>,
    <<"goglobal">>,
    <<"tbo", "rate_hawk">>,
    <<"goglobal", "rate_hawk">>,
    <<"rate_hawk", "rate_hawk">>,
    <<"rate_hawk", "rate_hawk", "goglobal">> }

VARIABLES
  adapters,   \* UniversalProvider.adapters: the loaded supplier names
  breaker,    \* UniversalProvider._circuit_breakers: name -> CircuitBreaker
  req,        \* the locals of the search_all invocation in progress
  unit,       \* the search_single tasks: in Spec those search_all created,
              \* indexed like providers_to_search; in SpecBreaker one per caller
  failures,   \* history: per supplier, failed calls since the last success/reset
  pool,       \* the SessionManager instance session_manager
  call,       \* the criteria dict of a request and what the adapters' pure
              \* operations made of it and of a response
  boot        \* the locals of _load_adapters: its position in the loop over
              \* the configured names and its list failed_providers

vars == <<adapters, breaker, req, unit, failures, pool, call, boot>>

\* ------------------------------------------------------- CircuitBreaker

\* CircuitBreaker.__init__
\* since_failure is time.time() - _last_failure_time, counted up to
\* reset_timeout (the code only compares it with reset_timeout), or None
NewBreaker == [state |-> "closed", failure_count |-> 0, since_failure |-> None]

\* _update_state with `>` for `>=`
UpdateState_Strict(cb) ==
  IF cb.state = "open"
     /\ cb.since_failure # None
     /\ cb.since_failure > reset_timeout
  THEN [cb EXCEPT !.state = "half_open"]
  ELSE cb

\* CircuitBreaker._update_state (time.time() is never 0.0, so the truth
\* test of _last_failure_time is the test for None)
UpdateState(cb) ==
  IF cb.state = "open"
     /\ cb.since_failure # None
     /\ cb.since_failure >= reset_timeout
  THEN [cb EXCEPT !.state = "half_open"]
  ELSE cb

\* a success that closes an Open breaker as well
ClosesOnSuccess_AlsoOpen(cb) == cb.state \in {"half_open", "open"}

\* _on_success: `if self._state == CircuitState.HALF_OPEN`
ClosesOnSuccess(cb) == cb.state = "half_open"

\* a success that takes one failure off the counter
OnSuccess_Decay(cb) ==
  [cb EXCEPT !.failure_count = IF @ > 0 THEN @ - 1 ELSE 0,
             !.state = IF @ = "half_open" THEN "closed" ELSE @]

\* CircuitBreaker._on_success
OnSuccess(cb) ==
  [cb EXCEPT !.failure_count = 0,
             !.state = IF ClosesOnSuccess(cb) THEN "closed" ELSE @]

\* _on_failure with `>` for `>=`
OnFailure_Late(cb) ==
  LET c == cb.failure_count + 1 IN
  [state |-> IF c > failure_threshold THEN "open" ELSE cb.state,
   failure_count |-> c,
   since_failure |-> 0]

\* CircuitBreaker._on_failure
OnFailure(cb) ==
  LET c == cb.failure_count + 1 IN
  [state |-> IF c >= failure_threshold THEN "open" ELSE cb.state,
   failure_count |-> c,
   since_failure |-> 0]

\* a call whose `except` clause catches the cancellation too
OnCancelled_AsFailure(cb) ==
  LET c == cb.failure_count + 1 IN
  [state |-> IF c >= failure_threshold THEN "open" ELSE cb.state,
   failure_count |-> c,
   since_failure |-> 0]

\* CircuitBreaker.call when CancelledError is thrown at `await func()`:
\* it is no Exception, so neither _on_success nor _on_failure runs
OnCancelled(cb) == cb

\* the breakers after the tasks in S were cancelled
AfterCancel(bs, us, S) ==
  [p \in DOMAIN bs |->
     IF \E i \in S : us[i].provider = p /\ us[i].pc = "inflight"
     THEN OnCancelled(bs[p])
     ELSE bs[p]]

\* a reset that only closes
ResetBreaker_OnlyCloses(cb) == [cb EXCEPT !.state = "closed"]

\* CircuitBreaker.reset
ResetBreaker(cb) == NewBreaker

\* ------------------------------------------------------- search_single

\* a task created by search_all for one entry of providers_to_search
NewUnit(p) ==
  [provider |-> p, pc |-> "created", attempt |-> 0, delay |-> 0, calls |-> 0,
   status |-> "none", offers |-> 0, reason |-> "none", admitted |-> "none",
   exchange |-> "none"]

Finished(u) == u.pc \in {"done", "cancelled"}

\* the retry test with `attempt < max_retries`
ShouldRetry_OneMore(attempt) == attempt < max_retries

\* `attempt < max_retries - 1` of both except clauses
ShouldRetry(attempt) == attempt < max_retries - 1

\* a delay that does not grow
Delay_Flat(attempt) == base_delay

\* `base_delay * (2 ** attempt)`
Delay(attempt) == base_delay * 2^attempt

\* A task that has returned: only what it returned is left of it (the
\* locals attempt and delay are gone with the frame of search_single).
Returned(u, st, n, why) ==
  [NewUnit(u.provider) EXCEPT !.pc = "done", !.status = st, !.offers = n,
                              !.reason = why, !.exchange = u.exchange]

\* return of an error outcome
ReturnError(u, why) == Returned(u, "error", 0, why)

\* a name that is not loaded treated like a failed attempt
NotAvailable_Retry(u) ==
  [u EXCEPT !.pc = "sleeping", !.delay = base_delay, !.admitted = "none"]

\* lines 158-163: `if provider_name not in self.adapters: return {...}`
NotAvailable(u) == ReturnError(u, "not_available")

\* what a step of an attempt raised: nothing, asyncio.TimeoutError, or
\* another Exception
Raised == {"none", "timeout", "error"}

\* except clauses that raise again after the last attempt
HandleFailure_Reraise(u, kind) ==
  IF ShouldRetry(u.attempt)
  THEN [u EXCEPT !.pc = "sleeping", !.delay = Delay(u.attempt),
                 !.admitted = "none"]
  ELSE [u EXCEPT !.pc = "raised"]

\* the two retrying except clauses (asyncio.TimeoutError, Exception); they
\* differ in the text of the error they return
HandleFailure(u, kind) ==
  IF ShouldRetry(u.attempt)
  THEN [u EXCEPT !.pc = "sleeping", !.delay = Delay(u.attempt),
                 !.admitted = "none"]
  ELSE ReturnError(u, kind)

\* a rejection handled like any other exception of the attempt
Rejected_Retry(u) == HandleFailure(u, "error")

\* lines 262-270: `except CircuitBreakerOpenError` returns at once; the text
\* of its error differs from the one of the test before the loop
\* (lines 169-178), which is "circuit_open"
Rejected(u) == ReturnError(u, "protection_triggered")

\* an iteration whose CircuitBreaker.call does not test for OPEN
Attempt_NoGate(u, cb, prep) ==
  IF prep # "none"
  THEN [u |-> HandleFailure(u, prep), cb |-> cb]
  ELSE LET cb1 == UpdateState(cb) IN
       [u |-> [u EXCEPT !.pc = "inflight", !.calls = @ + 1,
                        !.admitted = cb1.state, !.exchange = "none"],
        cb |-> cb1]

\* One iteration of the retry loop up to its first await: lines 185-196
\* with CircuitBreaker.call up to `await func()`.  Yields the unit and the
\* breaker after it.  prep: what prepare_meal_type_criteria raised.
Attempt(u, cb, prep) ==
  IF prep # "none"
  THEN [u |-> HandleFailure(u, prep), cb |-> cb]
  ELSE LET cb1 == UpdateState(cb) IN
       IF cb1.state = "open"
       THEN [u |-> Rejected(u), cb |-> cb1]
       ELSE [u |-> [u EXCEPT !.pc = "inflight", !.calls = @ + 1,
                             !.admitted = cb1.state, !.exchange = "none"],
             cb |-> cb1]

\* How the network exchange of one adapter.search ends: with a 200 answer
\* that parses, not at all because no hotel of the request is mapped for the
\* supplier, with another HTTP status, with the per-call timeout, with a
\* connection error, or with a body that does not parse.
NetOutcomes ==
  {"ok", "unmapped", "http_error", "timeout", "connection_error", "bad_body"}

\* what a task keeps of it
NetClass(net) ==
  CASE net = "ok" -> "ok"
    [] net = "unmapped" -> "none"
    [] OTHER -> "failed"

\* What adapter.search raises ("none": it returns a response).
\* RateHawkProvider.search re-raises from its three except clauses
\* (asyncio.TimeoutError as it is) and raises ValueError when no hotel is
\* mapped; TBOProvider.search and GoGlobalProvider.search catch Exception
\* and return a response that says the search failed.
Search(p, net) ==
  IF p = "rate_hawk"
  THEN CASE net = "ok" -> "none"
         [] net = "timeout" -> "timeout"
         [] OTHER -> "error"
  ELSE "none"

\* the number of offers normalize makes of the response: the offers of a
\* good answer, none of a response that says the search failed
Normalize(net, n) == IF net = "ok" THEN n ELSE 0

\* A return that evaluates circuit_breaker.state.value (lines 260, 285, 299)
\* performs the lazy check once more.
StateRead(u, cb) == IF u.pc = "done" THEN UpdateState(cb) ELSE cb

\* ---------------------------------------------------------- search_all

\* list(self.adapters.keys())
AvailableProviders(ad) == SelectSeq(ConfigOrder, LAMBDA p : p \in ad)

\* a selection that takes the explicit list as it is
ProvidersToSearch_NoFilter(provs, ad) ==
  IF provs # << >> THEN provs ELSE AvailableProviders(ad)

\* lines 334-353: the supplier subset of a request
ProvidersToSearch(provs, ad) ==
  LET valid == SelectSeq(provs, LAMBDA p : p \in ad) IN
  IF provs # << >> /\ valid # << >> THEN valid ELSE AvailableProviders(ad)

Range(s) == {s[i] : i \in 1..Len(s)}

\* keys of the dict provider_tasks in iteration order: a key keeps the
\* position of its first insertion
RECURSIVE DictKeys(_, _)
DictKeys(pts, n) ==
  IF n = 0 THEN << >>
  ELSE LET k == DictKeys(pts, n - 1) IN
       IF pts[n] \in Range(k) THEN k ELSE Append(k, pts[n])

\* provider_tasks[name]: a later assignment to the same key replaces the
\* task stored before, so the dict holds the task created last for a name
ProviderTask(pts, name) ==
  CHOOSE i \in 1..Len(pts) :
    pts[i] = name /\ \A j \in (i + 1)..Len(pts) : pts[j] # name

\* the tasks handed to asyncio.gather
Gathered(pts) == {ProviderTask(pts, name) : name \in Range(pts)}

\* what a finished task returned
Outcome(u) == [status |-> u.status, offers |-> u.offers, reason |-> u.reason]

TimeoutEntry == [status |-> "timeout", offers |-> 0, reason |-> "timeout"]

Put(f, k, v) == [x \in (DOMAIN f) \cup {k} |-> IF x = k THEN v ELSE f[x]]

\* a reducer that takes the results in the order of completion
RECURSIVE ProcessCompleted_AsCompleted(_, _, _)
ProcessCompleted_AsCompleted(pts, us, i) ==
  IF i = 0 THEN [results |-> << >>, total |-> 0]
  ELSE LET prev == ProcessCompleted_AsCompleted(pts, us, i - 1)
           order == SelectSeq(req.completed, LAMBDA j : j \in Gathered(pts))
           result == Outcome(us[order[i]])
       IN [results |-> Put(prev.results, pts[i], result),
           total |-> prev.total +
                     (IF result.status = "success" THEN result.offers ELSE 0)]

\* lines 381-395: the i-th gathered result is stored under
\* providers_to_search[i]
RECURSIVE ProcessCompleted(_, _, _)
ProcessCompleted(pts, us, i) ==
  IF i = 0 THEN [results |-> << >>, total |-> 0]
  ELSE LET prev == ProcessCompleted(pts, us, i - 1)
           keys == DictKeys(pts, Len(pts))
           result == Outcome(us[ProviderTask(pts, keys[i])])
       IN [results |-> Put(prev.results, pts[i], result),
           total |-> prev.total +
                     (IF result.status = "success" THEN result.offers ELSE 0)]

\* a deadline handler that keeps no result of the finished tasks
RECURSIVE ProcessPartial_Lost(_, _, _)
ProcessPartial_Lost(pts, us, i) ==
  IF i = 0 THEN [results |-> << >>, total |-> 0]
  ELSE LET prev == ProcessPartial_Lost(pts, us, i - 1)
           keys == DictKeys(pts, Len(pts))
       IN [results |-> Put(prev.results, keys[i], TimeoutEntry),
           total |-> prev.total]

\* lines 404-439: after the deadline the tasks are looked up by name
RECURSIVE ProcessPartial(_, _, _)
ProcessPartial(pts, us, i) ==
  IF i = 0 THEN [results |-> << >>, total |-> 0]
  ELSE LET prev == ProcessPartial(pts, us, i - 1)
           keys == DictKeys(pts, Len(pts))
           task == us[ProviderTask(pts, keys[i])]
           result == IF task.pc = "done" THEN Outcome(task) ELSE TimeoutEntry
       IN [results |-> Put(prev.results, keys[i], result),
           total |-> prev.total +
                     (IF result.status = "success" THEN result.offers ELSE 0)]

\* lines 460-462: the summary counts
CountStatus(results, st) == Cardinality({k \in DOMAIN results : results[k].status = st})

IdleRequest ==
  [pc |-> "idle", hotels |-> FALSE, providers |-> << >>,
   providers_to_search |-> << >>, remaining |-> 0, timed_out |-> FALSE,
   provider_results |-> << >>, total_offers |-> 0, completed |-> << >>]

\* history: asyncio.gather learns that task i of the request is done
NoteDone(rq, i, u) ==
  IF rq.pc = "waiting" /\ u.pc = "done"
  THEN [rq EXCEPT !.completed = Append(@, i)]
  ELSE rq

\* ------------------------------------------------------- SessionManager

\* the suppliers whose Config.PROVIDERS entry has auth_type 'basic'
BasicAuth == {"rate_hawk", "tbo"}

\* SessionManager.__init__.  Clients are numbered 1..created in the order
\* of their creation; 0 stands for None.
NewPool ==
  [sessions |-> << >>,       \* _sessions: the items of the dict in insertion order
   global_session |-> 0,     \* _global_session
   created |-> 0,            \* number of aiohttp.ClientSession objects created
   open |-> {},              \* the clients whose `closed` is False
   closes |-> << >>,         \* history: per client, the calls of its close()
   closer |-> [pc |-> "idle", idx |-> 0, size |-> 0],  \* close_all_sessions
   deleting |-> "none",      \* close_provider_session suspended in close()
   held |-> [c \in Callers |-> [provider |-> "none", client |-> 0]]]
                             \* what get_session returned to each caller last

\* position of the item of a supplier in _sessions, 0 if it has none
Index(ss, p) ==
  IF \E i \in 1..Len(ss) : ss[i].name = p
  THEN CHOOSE i \in 1..Len(ss) : ss[i].name = p
  ELSE 0

\* self._sessions[provider_name] = session
Store(pl, p, n) ==
  LET i == Index(pl.sessions, p) IN
  IF i = 0
  THEN [pl EXCEPT !.sessions = Append(@, [name |-> p, client |-> n])]
  ELSE [pl EXCEPT !.sessions[i].client = n]

\* aiohttp.ClientSession(...)
NewClient(pl) ==
  [pl EXCEPT !.created = @ + 1, !.open = @ \cup {pl.created + 1},
             !.closes = Append(@, 0)]

\* a policy under which every supplier reuses the global client
CreateProviderSession_AllGlobal(pl, p) ==
  IF pl.global_session = 0 \/ pl.global_session \notin pl.open
  THEN Store([NewClient(pl) EXCEPT !.global_session = pl.created + 1],
             p, pl.created + 1)
  ELSE Store(pl, p, pl.global_session)

\* SessionManager._create_provider_session: it has no await
CreateProviderSession(pl, p) ==
  IF p \in BasicAuth
  THEN Store(NewClient(pl), p, pl.created + 1)
  ELSE IF pl.global_session = 0 \/ pl.global_session \notin pl.open
       THEN Store([NewClient(pl) EXCEPT !.global_session = pl.created + 1],
                  p, pl.created + 1)
       ELSE Store(pl, p, pl.global_session)

\* a test for a missing item that is always true
Missing_Always(pl, p) == TRUE

\* `provider_name not in self._sessions`
Missing(pl, p) == Index(pl.sessions, p) = 0

\* a test for a closed client that is never true
Stale_Never(pl, p) == FALSE

\* `session.closed` of the item of a supplier
Stale(pl, p) == pl.sessions[Index(pl.sessions, p)].client \notin pl.open

\* the body of get_session under the lock: lines 40-51.  Nothing in it
\* suspends, so the lock is free whenever a caller arrives.
GetSessionPool(pl, p) ==
  LET pl1 == IF Missing(pl, p) THEN CreateProviderSession(pl, p) ELSE pl
  IN IF Stale(pl1, p) THEN CreateProviderSession(pl1, p) ELSE pl1

\* session.close(): `closed` is true at once, the coroutine then suspends
\* until the connections are closed
CloseClient(pl, n) ==
  [pl EXCEPT !.open = @ \ {n}, !.closes[n] = @ + 1]

\* close_all_sessions from the item after position idx to its next
\* suspension or its end: lines 129-141.  The iterator of the dict raises
\* RuntimeError when the size of the dict has changed since the loop began.
RECURSIVE CloseLoop(_, _)
CloseLoop(pl, idx) ==
  IF Len(pl.sessions) # pl.closer.size
  THEN [pl EXCEPT !.closer = [pc |-> "raised", idx |-> 0, size |-> 0]]
  ELSE IF idx < Len(pl.sessions)
  THEN LET n == pl.sessions[idx + 1].client IN
       IF n \in pl.open
       THEN [CloseClient(pl, n) EXCEPT !.closer.pc = "iterating",
                                       !.closer.idx = idx + 1]
       ELSE CloseLoop(pl, idx + 1)
  ELSE IF pl.global_session # 0 /\ pl.global_session \in pl.open
  THEN [CloseClient(pl, pl.global_session) EXCEPT !.closer.pc = "global"]
  ELSE [pl EXCEPT !.sessions = << >>, !.global_session = 0,
                  !.closer = [pc |-> "done", idx |-> 0, size |-> 0]]

CloserRuns(pl) == pl.closer.pc \in {"iterating", "global"}

Engine == <<adapters, breaker, req, unit, failures>>

\* a caller (an adapter's search) awaits session_manager.get_session
GetSession(c, p) ==
  /\ LET pl == GetSessionPool(pool, p)
         n == pl.sessions[Index(pl.sessions, p)].client
     IN /\ pl.created <= MaxClients
        /\ pool' = [pl EXCEPT !.held[c] = [provider |-> p, client |-> n]]
  /\ UNCHANGED <<Engine, call, boot>>

\* UniversalProvider.close at the end of a request: close_all_sessions up
\* to its first suspension
CloseAllSessions ==
  /\ ~CloserRuns(pool)
  /\ pool.deleting = "none"
  /\ pool' = CloseLoop([pool EXCEPT !.closer.size = Len(pool.sessions)], 0)
  /\ UNCHANGED <<Engine, call, boot>>

\* close_all_sessions resumes after a close()
CloseAllResume ==
  /\ CloserRuns(pool)
  /\ pool' = IF pool.closer.pc = "iterating"
             THEN CloseLoop(pool, pool.closer.idx)
             ELSE [pool EXCEPT !.sessions = << >>, !.global_session = 0,
                               !.closer = [pc |-> "done", idx |-> 0, size |-> 0]]
  /\ UNCHANGED <<Engine, call, boot>>

\* `del self._sessions[provider_name]`
Delete(pl, p) ==
  [pl EXCEPT !.sessions = SelectSeq(@, LAMBDA it : it.name # p)]

\* close_provider_session up to its suspension or its end: lines 150-155.
\* It has no caller in the application; here it runs between two runs of
\* close_all_sessions.
CloseProviderSession(p) ==
  /\ ~CloserRuns(pool)
  /\ pool.deleting = "none"
  /\ ~Missing(pool, p)
  /\ LET n == pool.sessions[Index(pool.sessions, p)].client IN
     pool' = IF n \in pool.open
             THEN [CloseClient(pool, n) EXCEPT !.deleting = p]
             ELSE Delete(pool, p)
  /\ UNCHANGED <<Engine, call, boot>>

\* close_provider_session resumes after close()
CloseProviderResume ==
  /\ pool.deleting # "none"
  /\ pool' = [Delete(pool, pool.deleting) EXCEPT !.deleting = "none"]
  /\ UNCHANGED <<Engine, call, boot>>

\* ------------------------------------------- the adapters' pure operations

\* meal codes a request can name; "XX" is one no supplier maps
MealTypes == {"BB", "XX"}

\* MealMapping._mappings, the table loaded from the database: the value a
\* supplier uses for a standard meal code, "" where the table has none.
\* Every supplier has a value for BB, HB and RO and none for any other code.
ProviderValue(p, mt) ==
  CASE p = "goglobal" ->
         (CASE mt = "BB" -> "gg_BB" [] mt = "HB" -> "gg_HB"
            [] mt = "RO" -> "gg_RO" [] OTHER -> "")
    [] p = "rate_hawk" ->
         (CASE mt = "BB" -> "breakfast" [] mt = "HB" -> "half-board"
            [] mt = "RO" -> "nomeal" [] OTHER -> "")
    [] p = "tbo" ->
         (CASE mt = "BB" -> "bed_and_breakfast" [] mt = "HB" -> "half_board"
            [] mt = "RO" -> "room_only" [] OTHER -> "")
    [] OTHER -> ""

\* MealMappingService.get_native_meal_code("goglobal", meal_type): the
\* rows of the mapping table that have a value for goglobal ("" for None)
NativeMealCode(mt) == ProviderValue("goglobal", mt)

\* MealMappingService.should_filter_at_request_level: the strategy of the
\* supplier is request_level (goglobal only) and the code is one of its
\* supported_meal_types
ShouldFilterAtRequestLevel(p, mt) == p = "goglobal" /\ NativeMealCode(mt) # ""

RECURSIVE SeqsUpTo(_, _)
SeqsUpTo(S, n) ==
  IF n = 0 THEN {<< >>}
  ELSE LET shorter == SeqsUpTo(S, n - 1) IN
       shorter \cup {Append(q, x) : q \in shorter, x \in S}

\* The criteria dicts of a request as far as the meal filter goes: a dict is
\* a function on the keys it has; meal_type "" and meal_types [] are the
\* falsy values.
CriteriaSet ==
  LET lists == SeqsUpTo(MealTypes, MaxMealTypes)
      codes == MealTypes \cup {""}
  IN {[k \in {} |-> ""]}
     \cup {[meal_types |-> l] : l \in lists}
     \cup {[meal_type |-> m] : m \in codes}
     \cup {[meal_types |-> l, meal_type |-> m] : l \in lists, m \in codes}

\* criteria.get("meal_types") or ([criteria.get("meal_type")] if
\* criteria.get("meal_type") else [])
MealTypesOf(c) ==
  LET mts == IF "meal_types" \in DOMAIN c THEN c.meal_types ELSE << >>
      mt == IF "meal_type" \in DOMAIN c THEN c.meal_type ELSE ""
  IN IF mts # << >> THEN mts
     ELSE IF mt # "" THEN <<mt>> ELSE << >>

\* what a call of prepare_meal_type_criteria leaves and gives: the dict it
\* was given as it is afterwards, and the dict it returns (same: the very
\* object it was given)
Prepared(c, same, value) == [criteria |-> c, same |-> same, value |-> value]

\* a RateHawk adapter that writes its key on a copy
RateHawkPrepare_Copy(c) ==
  LET meal_types == MealTypesOf(c) IN
  IF meal_types # << >>
  THEN Prepared(c, FALSE, Put(c, "rate_hawk_meal_types", meal_types))
  ELSE Prepared(c, TRUE, c)

\* RateHawkProvider.prepare_meal_type_criteria
RateHawkPrepare(c) ==
  LET meal_types == MealTypesOf(c) IN
  IF meal_types # << >>
  THEN LET c1 == Put(c, "rate_hawk_meal_types", meal_types) IN
       Prepared(c1, TRUE, c1)
  ELSE Prepared(c, TRUE, c)

\* GoGlobalProvider.prepare_meal_type_criteria
GoGlobalPrepare(c) ==
  LET meal_types == MealTypesOf(c) IN
  IF meal_types = << >> THEN Prepared(c, TRUE, c)
  ELSE LET meal_type == meal_types[1]
           native_code == NativeMealCode(meal_type)
       IN IF ShouldFilterAtRequestLevel("goglobal", meal_type) /\ native_code # ""
          THEN Prepared(c, FALSE, Put(c, "meal_type", native_code))
          ELSE Prepared(c, TRUE, c)

\* TBOProvider.prepare_meal_type_criteria
TBOPrepare(c) == Prepared(c, TRUE, c)

\* adapter.prepare_meal_type_criteria(criteria)
PrepareMealTypeCriteria(p, c) ==
  CASE p = "rate_hawk" -> RateHawkPrepare(c)
    [] p = "goglobal" -> GoGlobalPrepare(c)
    [] OTHER -> TBOPrepare(c)

\* An entry of a hotel of a response (a rate, a room, an offer): "good" has
\* every field, "incomplete" is an object without the fields of a price and
\* a room, "scalar" is not an object.
EntryKinds == {"good", "incomplete", "scalar"}

\* A hotel of a response: an object with its code and its list of entries,
\* an object without a code ("no_id"), an object whose list of entries is
\* null ("null_entries"), or something that is not an object ("scalar").
Hotel(kind, entries) == [kind |-> kind, entries |-> entries]

HotelSet ==
  {Hotel(k, << >>) : k \in {"scalar", "null_entries"}}
  \cup {Hotel(k, es) : k \in {"object", "no_id"}, es \in SeqsUpTo(EntryKinds, MaxEntries)}

\* A raw response: None (present FALSE), a response without data or that
\* says the search failed (success FALSE), or one with its hotels.
RawSet ==
  {[present |-> FALSE, success |-> FALSE, hotels |-> << >>],
   [present |-> TRUE, success |-> FALSE, hotels |-> << >>]}
  \cup {[present |-> TRUE, success |-> TRUE, hotels |-> hs] :
          hs \in SeqsUpTo(HotelSet, MaxHotels)}

\* what a loop gives: the offers appended so far, each named by the hotel
\* and the entry it was made of, and whether an exception left the loop
Looped(offers, raised) == [offers |-> offers, raised |-> raised]

\* RateHawkProvider.normalize, the loop over the rates of a hotel from the
\* k-th on: the debug line before the inner try reads rate.keys(), an empty
\* or incomplete rate is skipped
RECURSIVE RateHawkRates(_, _, _, _)
RateHawkRates(h, es, k, acc) ==
  IF k > Len(es) THEN Looped(acc, FALSE)
  ELSE CASE es[k] = "scalar" -> Looped(acc, TRUE)
         [] es[k] = "incomplete" -> RateHawkRates(h, es, k + 1, acc)
         [] OTHER -> RateHawkRates(h, es, k + 1, Append(acc, <<h, k>>))

\* RateHawkProvider.normalize, the loop over the hotels from the h-th on,
\* none of it inside the inner try: hotel.get, the skip of a hotel without
\* id, len(rates)
RECURSIVE RateHawkHotels(_, _, _)
RateHawkHotels(hs, h, acc) ==
  IF h > Len(hs) THEN Looped(acc, FALSE)
  ELSE CASE hs[h].kind \in {"scalar", "null_entries"} -> Looped(acc, TRUE)
         [] hs[h].kind = "no_id" -> RateHawkHotels(hs, h + 1, acc)
         [] OTHER ->
              LET r == RateHawkRates(h, hs[h].entries, 1, acc) IN
              IF r.raised THEN r ELSE RateHawkHotels(hs, h + 1, r.offers)

\* what normalize gives its caller
Normalized(offers, raised) == [offers |-> offers, raised |-> raised]

\* RateHawkProvider.normalize: the outer except logs and the offers
\* appended so far are returned
RateHawkNormalize(raw) ==
  IF ~raw.present \/ ~raw.success \/ raw.hotels = << >>
  THEN Normalized(<< >>, FALSE)
  ELSE Normalized(RateHawkHotels(raw.hotels, 1, << >>).offers, FALSE)

\* TBOProvider.normalize, the loop over the rooms: each room in a try of its
\* own, missing fields get defaults
RECURSIVE TBORooms(_, _, _, _)
TBORooms(h, es, k, acc) ==
  IF k > Len(es) THEN acc
  ELSE IF es[k] = "scalar" THEN TBORooms(h, es, k + 1, acc)
       ELSE TBORooms(h, es, k + 1, Append(acc, <<h, k>>))

\* TBOProvider.normalize, the loop over HotelResult: each hotel in a try of
\* its own, a hotel without HotelCode is skipped
RECURSIVE TBOHotels(_, _, _)
TBOHotels(hs, h, acc) ==
  IF h > Len(hs) THEN acc
  ELSE IF hs[h].kind # "object" THEN TBOHotels(hs, h + 1, acc)
       ELSE TBOHotels(hs, h + 1, TBORooms(h, hs[h].entries, 1, acc))

\* TBOProvider.normalize: the whole body is in a try that returns []
TBONormalize(raw) ==
  IF ~raw.present \/ ~raw.success
  THEN Normalized(<< >>, FALSE)
  ELSE Normalized(TBOHotels(raw.hotels, 1, << >>), FALSE)

\* GoGlobalProvider._process_hotel_offers, the loop over Offers: each offer
\* in a try of its own, missing fields get defaults
RECURSIVE GoGlobalOffers(_, _, _, _)
GoGlobalOffers(h, es, k, acc) ==
  IF k > Len(es) THEN acc
  ELSE IF es[k] = "scalar" THEN GoGlobalOffers(h, es, k + 1, acc)
       ELSE GoGlobalOffers(h, es, k + 1, Append(acc, <<h, k>>))

\* GoGlobalProvider.normalize, the loop over Hotels, in no try:
\* hotel.get of what is not an object and the iteration of a null Offers
\* raise, a hotel without HotelCode is processed like any other
RECURSIVE GoGlobalHotels(_, _, _)
GoGlobalHotels(hs, h, acc) ==
  IF h > Len(hs) THEN Looped(acc, FALSE)
  ELSE IF hs[h].kind \in {"scalar", "null_entries"} THEN Looped(acc, TRUE)
       ELSE GoGlobalHotels(hs, h + 1, GoGlobalOffers(h, hs[h].entries, 1, acc))

\* GoGlobalProvider.normalize: it has no except clause
GoGlobalNormalize(raw) ==
  IF ~raw.present \/ ~raw.success \/ raw.hotels = << >>
  THEN Normalized(<< >>, FALSE)
  ELSE LET r == GoGlobalHotels(raw.hotels, 1, << >>) IN
       IF r.raised THEN Normalized(<< >>, TRUE) ELSE Normalized(r.offers, FALSE)

\* adapter.normalize(raw_response, criteria)
NormalizeResponse(p, raw) ==
  CASE p = "rate_hawk" -> RateHawkNormalize(raw)
    [] p = "goglobal" -> GoGlobalNormalize(raw)
    [] OTHER -> TBONormalize(raw)

\* No request yet: the criteria dict, the provider_criteria each adapter
\* returned for it, and the last call of normalize.
NewCall ==
  [criteria |-> [k \in {} |-> ""],
   provider_criteria |-> << >>,
   normalize |-> [provider |-> "none",
                  raw |-> [present |-> FALSE, success |-> FALSE, hotels |-> << >>],
                  result |-> Normalized(<< >>, FALSE)],
   filtered |-> [provider |-> "none", criteria |-> [k \in {} |-> ""],
                 catalogue |-> << >>,
                 result |-> [status |-> "none", offers |-> << >>]]]

\* a request arrives with its criteria
NewRequest(c) ==
  /\ call' = [call EXCEPT !.criteria = c, !.provider_criteria = << >>]
  /\ UNCHANGED <<Engine, pool, boot>>

\* line 187 of the unit of supplier p: provider_criteria =
\* adapter.prepare_meal_type_criteria(criteria).  The dicts other units got
\* back as the very object of the request change with it.
PrepareCriteria(p) ==
  /\ LET r == PrepareMealTypeCriteria(p, call.criteria)
         others == [q \in DOMAIN call.provider_criteria |->
                      IF call.provider_criteria[q].same
                      THEN [same |-> TRUE, value |-> r.criteria]
                      ELSE call.provider_criteria[q]]
     IN call' = [call EXCEPT
                   !.criteria = r.criteria,
                   !.provider_criteria =
                      Put(others, p, [same |-> r.same, value |-> r.value])]
  /\ UNCHANGED <<Engine, pool, boot>>

\* line 201: adapter.normalize(raw_response, criteria)
CallNormalize(p, raw) ==
  /\ call' = [call EXCEPT !.normalize =
                [provider |-> p, raw |-> raw, result |-> NormalizeResponse(p, raw)]]
  /\ UNCHANGED <<Engine, pool, boot>>

\* ------------------------------------------ the filters of search_single
\* the standard meal codes of the mapping table
StandardCodes == {"BB", "HB", "RO"}

\* the meal codes a request can name in meal_types; "XX" is in no table
RequestedCodes == {"BB", "HB", "XX"}

\* the values of room_category a request can carry (SearchRequest)
RequestedCategories == {"Standard", "Premium"}

\* the room_category of a normalized offer: every adapter sets the key to
\* None (NoCategory); the strings are what the filter of search_single
\* would compare if an adapter set one
NoCategory == "None"

OfferCategories == {NoCategory, "standard", "Premium"}

\* str.lower() on the strings above
Lower(str) ==
  CASE str = "Standard" -> "standard"
    [] str = "Premium" -> "premium"
    [] OTHER -> str

\* An offer of the supplier for the requested stay: the meal plan in the
\* supplier's own value and the room_category of the normalized offer; id
\* is its position in the catalogue of the supplier.
Offers(p) ==
  [meal_plan : {ProviderValue(p, c) : c \in StandardCodes},
   room_category : OfferCategories]

\* what the supplier has for the request
Catalogues(p) ==
  {[i \in 1..Len(q) |-> [id |-> i, meal_plan |-> q[i].meal_plan,
                         room_category |-> q[i].room_category]] :
     q \in SeqsUpTo(Offers(p), MaxCatalogue)}

\* the criteria of a request as far as the filters go
FilterCriteria ==
  LET lists == SeqsUpTo(RequestedCodes, MaxRequested) \ {<< >>} IN
  {[k \in {} |-> ""]}
  \cup {[meal_types |-> l] : l \in lists}
  \cup {[room_category |-> rc] : rc \in RequestedCategories}
  \cup {[meal_types |-> l, room_category |-> rc] :
          l \in lists, rc \in RequestedCategories}

\* MealMapping.is_meal_type_supported
IsMealTypeSupported(p, mt) == ProviderValue(p, mt) # ""

\* MealMapping.should_filter_at_response_level: the strategy of the
\* supplier is response_level (rate_hawk and tbo)
ShouldFilterAtResponseLevel(p, mt) ==
  p \in {"rate_hawk", "tbo"} /\ IsMealTypeSupported(p, mt)

\* MealMapping.get_standard_code
GetStandardCode(value, p) ==
  IF \E c \in StandardCodes : ProviderValue(p, c) = value
  THEN CHOOSE c \in StandardCodes : ProviderValue(p, c) = value
  ELSE ""

\* adapter.search(provider_criteria) followed by adapter.normalize: GoGlobal
\* sends criteria["meal_type"] as FilterRoomBasis (goglobal.py:251-254) and
\* the supplier answers with its offers of that basis; the others send no
\* meal filter
SupplierOffers(p, pc, catalogue) ==
  IF p = "goglobal" /\ "meal_type" \in DOMAIN pc /\ pc.meal_type # ""
  THEN SelectSeq(catalogue, LAMBDA o : o.meal_plan = pc.meal_type)
  ELSE catalogue

\* MealMapping.filter_offers_by_any_meal_type
FilterOffersByAnyMealType(p, offers, meal_types) ==
  LET valid == SelectSeq(meal_types, LAMBDA mt : mt # "")
      all_filter_values ==
        {ProviderValue(p, valid[i]) :
           i \in {j \in 1..Len(valid) : ShouldFilterAtResponseLevel(p, valid[j])}}
  IN IF meal_types = << >> \/ offers = << >> \/ valid = << >> THEN offers
     ELSE IF ~\E i \in 1..Len(valid) : ShouldFilterAtResponseLevel(p, valid[i])
     THEN offers
     ELSE IF all_filter_values = {} THEN << >>
     ELSE SelectSeq(offers, LAMBDA o :
            o.meal_plan # "" /\ o.meal_plan \in all_filter_values)

\* search_single, lines 203-229: the filter by meal_types
MealTypesFilter(p, c, offers) ==
  IF "meal_types" \in DOMAIN c /\ c.meal_types # << >>
  THEN IF \E i \in 1..Len(c.meal_types) :
            c.meal_types[i] # ""
            /\ ShouldFilterAtResponseLevel(p, c.meal_types[i])
       THEN FilterOffersByAnyMealType(p, offers, c.meal_types)
       ELSE offers
  ELSE offers

\* search_single, lines 231-247: the filter by room_category.
\* offer.get('room_category', '') is None for a key that holds None, and
\* None.strip() raises AttributeError: the loop ends at the first such offer.
RoomCategoryFilter(c, offers) ==
  IF "room_category" \in DOMAIN c /\ c.room_category # ""
  THEN IF \E i \in 1..Len(offers) : offers[i].room_category = NoCategory
       THEN Looped(<< >>, TRUE)
       ELSE Looped(SelectSeq(offers, LAMBDA o :
                     Lower(o.room_category) = Lower(c.room_category)), FALSE)
  ELSE Looped(offers, FALSE)

\* MealMapping.normalize_offers_meal_plans: the meal plan of an offer
\* becomes the standard code when the table has one
NormalizeOffersMealPlans(offers, p) ==
  [i \in 1..Len(offers) |->
     IF offers[i].meal_plan # "" /\ GetStandardCode(offers[i].meal_plan, p) # ""
     THEN [offers[i] EXCEPT !.meal_plan = GetStandardCode(@, p)]
     ELSE offers[i]]

\* search_single for a loaded supplier whose search succeeds in every
\* attempt with the same offers: lines 184-300.  An exception of a filter is
\* caught by `except Exception` (line 272) in every attempt, and the loop
\* ends with the error outcome of its last attempt.
SearchSingleOutcome(p, c, catalogue) ==
  LET provider_criteria == PrepareMealTypeCriteria(p, c).value
      normalized_offers == SupplierOffers(p, provider_criteria, catalogue)
      by_meal == MealTypesFilter(p, c, normalized_offers)
      by_room == RoomCategoryFilter(c, by_meal)
  IN IF by_room.raised
     THEN [status |-> "error", offers |-> << >>]
     ELSE [status |-> "success",
           offers |-> NormalizeOffersMealPlans(by_room.offers, p)]

\* a caller awaits search_single(p, c) while the supplier has `catalogue`:
\* the one call of a behaviour
SearchSingleFilters(p, c, catalogue) ==
  /\ call.filtered.provider = "none"
  /\ call' = [call EXCEPT !.filtered =
                [provider |-> p, criteria |-> c, catalogue |-> catalogue,
                 result |-> SearchSingleOutcome(p, c, catalogue)]]
  /\ UNCHANGED <<Engine, pool, boot>>

\* --------------------------------------------------------- _load_adapters
\* What an iteration of the loop of _load_adapters can meet: the supplier is
\* configured inactive (line 114), the import of its module or the lookup
\* of its class raises (lines 120-121), the constructor of the adapter
\* raises (line 123), the constructor of the breaker raises (line 126:
\* CircuitBreaker.__init__ rejects its arguments), or nothing raises.
LoadErrors == {"import_error", "adapter_error", "breaker_error"}

LoadKinds == LoadErrors \cup {"inactive", "loaded"}

\* UniversalProvider.__init__ before _load_adapters has run an iteration
NewBoot == [pc |-> "loading", next |-> 0, failed_providers |-> << >>]

\* _load_adapters has returned with the set A of suppliers loaded; the
\* others failed in the import
Booted(A) ==
  [pc |-> "ready", next |-> Len(ConfigOrder),
   failed_providers |->
     [i \in 1..Len(SelectSeq(ConfigOrder, LAMBDA p : p \notin A)) |->
        [name |-> SelectSeq(ConfigOrder, LAMBDA p : p \notin A)[i],
         error |-> "import_error"]]]

\* the list failed_providers after an iteration: the except clause
Failed(fp, p, kind) ==
  IF kind \in LoadErrors THEN Append(fp, [name |-> p, error |-> kind]) ELSE fp

\* self.adapters after an iteration: line 123 stores the adapter before
\* line 126 creates the breaker
AdaptersAfter(ad, p, kind) ==
  IF kind \in {"breaker_error", "loaded"} THEN ad \cup {p} ELSE ad

\* self._circuit_breakers after an iteration
BreakersAfter(bs, p, kind) ==
  IF kind = "loaded"
  THEN [q \in DOMAIN bs \cup {p} |-> IF q = p THEN NewBreaker ELSE bs[q]]
  ELSE bs

\* One iteration of the loop of _load_adapters (lines 110-136) for the next
\* configured name; the last iteration goes on to the end of the function
\* (lines 138-144), where RuntimeError is raised when self.adapters is empty.
LoadAdapter(kind) ==
  /\ boot.pc = "loading"
  /\ LET p == ConfigOrder[boot.next + 1]
         ad == AdaptersAfter(adapters, p, kind)
     IN /\ adapters' = ad
        /\ breaker' = BreakersAfter(breaker, p, kind)
        /\ failures' = [q \in DOMAIN breaker' |-> 0]
        /\ boot' = [pc |-> IF boot.next + 1 < Len(ConfigOrder) THEN "loading"
                           ELSE IF ad = {} THEN "failed" ELSE "ready",
                    next |-> boot.next + 1,
                    failed_providers |->
                      Failed(boot.failed_providers, p, kind)]
  /\ UNCHANGED <<req, unit, pool, call>>

\* UniversalProvider() is being constructed
InitBoot ==
  /\ adapters = {}
  /\ breaker = << >>
  /\ req = IdleRequest
  /\ unit = << >>
  /\ failures = << >>
  /\ pool = NewPool
  /\ call = NewCall
  /\ boot = NewBoot

NextBoot == \E kind \in LoadKinds : LoadAdapter(kind)

SpecBoot == InitBoot /\ [][NextBoot]_vars

\* ------------------------------------------------------------------ Init
\* State after UniversalProvider.__init__: _load_adapters has loaded
\* rate_hawk and goglobal with a fresh breaker each; tbo is excluded
\* (line 133), so "tbo" is a name a request can send that is not loaded.
Init ==
  /\ adapters = {"rate_hawk", "goglobal"}
  /\ breaker = [p \in adapters |-> NewBreaker]
  /\ req = IdleRequest
  /\ unit = << >>
  /\ failures = [p \in adapters |-> 0]
  /\ pool = NewPool
  /\ call = NewCall
  /\ boot = Booted(adapters)

\* --------------------------------------------------------------- actions

\* a search_all that goes on without hotel names
HasHotels_Always(hotels) == TRUE

\* lines 320-321: `if not hotel_names` is false (hotels: the list is there
\* and not empty)
HasHotels(hotels) == hotels

\* search_all up to `await asyncio.wait_for(...)`: lines 317-378
\* deadline: criteria.get('search_timeout', 10.0)
StartSearchAll(hotels, provs, deadline) ==
  /\ req.pc = "idle"
  /\ \A i \in DOMAIN unit : Finished(unit[i])
  /\ IF ~HasHotels(hotels)
     THEN /\ req' = 
                 [IdleRequest EXCEPT !.pc = "returned", !.providers = provs]
          /\ unit' = << >>
     ELSE LET pts == ProvidersToSearch(provs, adapters) IN
          /\ req' = 
                 [IdleRequest EXCEPT !.pc = "waiting", !.hotels = hotels,
                                     !.providers = provs,
                                     !.providers_to_search = pts,
                                     !.remaining = deadline]
          /\ unit' = [i \in 1..Len(pts) |-> NewUnit(pts[i])]
  /\ UNCHANGED <<boot, call, pool, adapters, breaker, failures>>

\* adapter.search begins with hotel_mapping_service.get_hotel_id, a
\* synchronous call (it waits for a worker thread with future.result) made
\* inside the coroutine: for its duration d the event loop runs no other
\* task and fires no timer, while the clocks go on.
ElapseBy(cb, d) ==
  IF cb.since_failure = None THEN cb
  ELSE [cb EXCEPT !.since_failure =
          IF @ + d >= reset_timeout THEN reset_timeout ELSE @ + d]

HeldBreakers(bs, d) == [p \in DOMAIN bs |-> ElapseBy(bs[p], d)]

HeldUnits(us, d) ==
  [j \in DOMAIN us |->
     IF us[j].pc = "sleeping"
     THEN [us[j] EXCEPT !.delay = IF @ > d THEN @ - d ELSE 0]
     ELSE us[j]]

HeldRequest(rq, d) ==
  IF rq.pc = "waiting" THEN [rq EXCEPT !.remaining = @ - d] ELSE rq

\* search_single from its entry to the first await: lines 158-196
\* d: the duration of the lookups of an admitted adapter.search
Begin(i, prep, d) ==
  /\ i \in DOMAIN unit
  /\ unit[i].pc = "created"
  /\ LET u == unit[i]
         p == u.provider
     IN IF p \notin adapters
        THEN /\ unit' = [unit EXCEPT ![i] = NotAvailable(u)]
             /\ req' = NoteDone(req, i, NotAvailable(u))
             /\ UNCHANGED breaker
        ELSE LET cb0 == UpdateState(breaker[p]) IN
             IF cb0.state = "open"
             THEN /\ unit' = [unit EXCEPT ![i] = ReturnError(u, "circuit_open")]
                  /\ breaker' = [breaker EXCEPT ![p] = UpdateState(cb0)]
                  /\ req' = NoteDone(req, i, ReturnError(u, "circuit_open"))
             ELSE LET a == Attempt(u, cb0, prep)
                      h == IF a.u.pc = "inflight" THEN d ELSE 0
                  IN /\ unit' = HeldUnits([unit EXCEPT ![i] = a.u], h)
                     /\ breaker' = HeldBreakers(
                                      [breaker EXCEPT ![p] = StateRead(a.u, a.cb)], h)
                     /\ req' = HeldRequest(NoteDone(req, i, a.u), h)
  /\ UNCHANGED <<boot, call, pool, adapters, failures>>

\* The event loop runs the tasks that are ready before it looks at I/O and
\* timers, so a task just created takes its first step before any call
\* completes, any sleep ends or the deadline fires.
NoneCreated == \A j \in DOMAIN unit : unit[j].pc # "created"

\* adapter.search returned: _on_success, then normalize and the response
\* filters (lines 84, 201-261); post: what one of them raised
SearchSucceeds(i, net, n, post) ==
  /\ i \in DOMAIN unit
  /\ unit[i].pc = "inflight"
  /\ NoneCreated
  /\ Search(unit[i].provider, net) = "none"
  /\ LET u == [unit[i] EXCEPT !.exchange = NetClass(net)]
         p == u.provider
         cb1 == OnSuccess(breaker[p])
         u1 == IF post = "none"
               THEN Returned(u, "success", Normalize(net, n), "none")
               ELSE HandleFailure(u, post)
     IN /\ unit' = [unit EXCEPT ![i] = u1]
        /\ breaker' = [breaker EXCEPT ![p] = StateRead(u1, cb1)]
        /\ failures' = [failures EXCEPT ![p] = 0]
        /\ req' = NoteDone(req, i, u1)
  /\ UNCHANGED <<boot, call, pool, adapters>>

\* adapter.search raised: _on_failure, then the except clause of
\* search_single (lines 88, 273-300)
SearchFails(i, net) ==
  /\ i \in DOMAIN unit
  /\ unit[i].pc = "inflight"
  /\ NoneCreated
  /\ Search(unit[i].provider, net) # "none"
  /\ breaker[unit[i].provider].failure_count < MaxFailureCount
  /\ LET u == [unit[i] EXCEPT !.exchange = NetClass(net)]
         p == u.provider
         cb1 == OnFailure(breaker[p])
         u1 == HandleFailure(u, Search(p, net))
     IN /\ unit' = [unit EXCEPT ![i] = u1]
        /\ breaker' = [breaker EXCEPT ![p] = StateRead(u1, cb1)]
        /\ failures' = [failures EXCEPT ![p] = @ + 1]
        /\ req' = NoteDone(req, i, u1)
  /\ UNCHANGED <<boot, call, pool, adapters>>

\* asyncio.sleep(delay) is over: `continue` and the next iteration
Wake(i, prep, d) ==
  /\ i \in DOMAIN unit
  /\ unit[i].pc = "sleeping"
  /\ unit[i].delay = 0
  /\ NoneCreated
  /\ LET u == [unit[i] EXCEPT !.attempt = @ + 1, !.exchange = "none"]
         p == u.provider
         a == Attempt(u, breaker[p], prep)
         h == IF a.u.pc = "inflight" THEN d ELSE 0
     IN /\ unit' = HeldUnits([unit EXCEPT ![i] = a.u], h)
        /\ breaker' = HeldBreakers([breaker EXCEPT ![p] = StateRead(a.u, a.cb)], h)
        /\ req' = HeldRequest(NoteDone(req, i, a.u), h)
  /\ UNCHANGED <<boot, call, pool, adapters, failures>>

\* asyncio.gather has all its results before the deadline: lines 375-395
GatherDone ==
  /\ req.pc = "waiting"
  /\ NoneCreated
  /\ \A i \in Gathered(req.providers_to_search) : Finished(unit[i])
  /\ LET pts == req.providers_to_search
         c == ProcessCompleted(pts, unit, Len(DictKeys(pts, Len(pts))))
     IN req' = [req EXCEPT !.pc = "returned",
                           !.provider_results = c.results,
                           !.total_offers = c.total]
  /\ UNCHANGED <<boot, call, pool, adapters, breaker, unit, failures>>

\* task.cancel() of a gathered task that is not done: CancelledError is
\* thrown at its await and passes every `except Exception`
Cancel(u) ==
  IF Finished(u) THEN u
  ELSE [NewUnit(u.provider) EXCEPT !.pc = "cancelled"]

\* the deadline of wait_for expires: lines 397-445
Timeout ==
  /\ req.pc = "waiting"
  /\ NoneCreated
  /\ req.remaining <= 0
  /\ \E i \in Gathered(req.providers_to_search) : ~Finished(unit[i])
  /\ LET pts == req.providers_to_search
         us == [i \in 1..Len(pts) |->
                  IF i \in Gathered(pts) THEN Cancel(unit[i]) ELSE unit[i]]
         c == ProcessPartial(pts, us, Len(DictKeys(pts, Len(pts))))
     IN /\ unit' = us
        /\ breaker' = AfterCancel(breaker, unit, Gathered(pts))
        /\ req' = [req EXCEPT !.pc = "returned",
                              !.timed_out = TRUE,
                              !.provider_results = c.results,
                              !.total_offers = c.total]
  /\ UNCHANGED <<boot, call, pool, adapters, failures>>

\* `return {...}` of search_all (lines 323, 474): the caller has the result
\* at once; the finished tasks are dropped with the locals, while a task
\* that is still running stays with the event loop
Return ==
  /\ req.pc = "returned"
  /\ req' = IdleRequest
  /\ unit' = [i \in {j \in DOMAIN unit : ~Finished(unit[j])} |-> unit[i]]
  /\ UNCHANGED <<boot, call, pool, adapters, breaker, failures>>

\* GET /circuit-breakers: cb.state
ReadState(p) ==
  /\ p \in adapters
  /\ breaker[p].state = "open"
  /\ breaker' = [breaker EXCEPT ![p] = UpdateState(@)]
  /\ UNCHANGED <<boot, call, pool, adapters, req, unit, failures>>

\* UniversalProvider.reset_circuit_breaker
ResetCircuitBreaker(p) ==
  /\ IF p \in adapters
     THEN /\ breaker[p] # NewBreaker
          /\ breaker' = [breaker EXCEPT ![p] = ResetBreaker(@)]
          /\ failures' = [failures EXCEPT ![p] = 0]
     ELSE UNCHANGED <<breaker, failures>>
  /\ UNCHANGED <<boot, call, pool, adapters, req, unit>>

\* a timer is due or a task is ready to run
Urgent ==
  \/ req.pc = "returned"
  \/ req.pc = "waiting" /\
        (req.remaining <= 0 \/
         \A i \in Gathered(req.providers_to_search) : Finished(unit[i]))
  \/ \E i \in DOMAIN unit :
        \/ unit[i].pc = "created"
        \/ unit[i].pc = "sleeping" /\ unit[i].delay = 0

\* one unit of time passes
Elapse(cb) ==
  IF cb.since_failure = None \/ cb.since_failure >= reset_timeout THEN cb
  ELSE [cb EXCEPT !.since_failure = @ + 1]

Tick ==
  /\ ~Urgent
  /\ breaker' = [p \in DOMAIN breaker |-> Elapse(breaker[p])]
  /\ unit' = [i \in DOMAIN unit |->
                IF unit[i].pc = "sleeping"
                THEN [unit[i] EXCEPT !.delay = @ - 1] ELSE unit[i]]
  /\ req' = IF req.pc = "waiting" THEN [req EXCEPT !.remaining = @ - 1] ELSE req
  /\ UNCHANGED <<boot, call, pool, adapters, failures>>

\* In Spec prepare_meal_type_criteria returns and the hotel-mapping lookups
\* take no time; a raise of the former is a step of SpecBreaker, the
\* duration of the latter is part of SpecBlocking below.
Next ==
  \/ \E h \in BOOLEAN, ps \in ProviderLists : StartSearchAll(h, ps, search_timeout)
  \/ \E i \in DOMAIN unit : Begin(i, "none", 0)
  \/ \E i \in DOMAIN unit, e \in NetOutcomes, n \in 0..MaxOffers, x \in Raised :
       SearchSucceeds(i, e, n, x)
  \/ \E i \in DOMAIN unit, e \in NetOutcomes : SearchFails(i, e)
  \/ \E i \in DOMAIN unit : Wake(i, "none", 0)
  \/ GatherDone
  \/ Timeout
  \/ Return
  \/ \E p \in Providers : ReadState(p)
  \/ \E p \in Providers : ResetCircuitBreaker(p)
  \/ Tick

Spec == Init /\ [][Next]_vars

\* ------------------------------------------- one breaker, concurrent calls
\* State after UniversalProvider.__init__ when only rate_hawk could be
\* loaded; no search_all is in progress, the callers run search_single.
InitBreaker ==
  /\ adapters = {"rate_hawk"}
  /\ breaker = [p \in adapters |-> NewBreaker]
  /\ req = IdleRequest
  /\ unit = << >>
  /\ failures = [p \in adapters |-> 0]
  /\ pool = NewPool
  /\ call = NewCall
  /\ boot = Booted(adapters)

\* asyncio.create_task(self.search_single(provider_name, criteria))
CallSearchSingle(c, p) ==
  /\ c \in DOMAIN unit => Finished(unit[c])
  /\ unit' = Put(unit, c, NewUnit(p))
  /\ UNCHANGED <<boot, call, pool, adapters, breaker, req, failures>>

\* the deadline of the request that owns the task expires: task.cancel()
CancelUnit(c) ==
  /\ c \in DOMAIN unit
  /\ ~Finished(unit[c])
  /\ unit' = [unit EXCEPT ![c] = Cancel(@)]
  /\ breaker' = AfterCancel(breaker, unit, {c})
  /\ UNCHANGED <<boot, call, pool, adapters, req, failures>>

NextBreaker ==
  \/ \E c \in Callers, p \in Providers : CallSearchSingle(c, p)
  \/ \E c \in Callers : CancelUnit(c)
  \/ \E i \in DOMAIN unit, x \in Raised : Begin(i, x, 0)
  \/ \E i \in DOMAIN unit, e \in NetOutcomes, n \in 0..MaxOffers, x \in Raised :
       SearchSucceeds(i, e, n, x)
  \/ \E i \in DOMAIN unit, e \in NetOutcomes : SearchFails(i, e)
  \/ \E i \in DOMAIN unit, x \in Raised : Wake(i, x, 0)
  \/ \E p \in Providers : ReadState(p)
  \/ \E p \in Providers : ResetCircuitBreaker(p)
  \/ Tick

SpecBreaker == InitBreaker /\ [][NextBreaker]_vars

\* ------------------------------------- one search_single, then the next
\* One caller runs search_single for rate_hawk with nothing else going on;
\* when it has returned, a second caller sends the next one.
FirstRequest ==
  /\ "c1" \notin DOMAIN unit
  /\ CallSearchSingle("c1", "rate_hawk")

NextRequest ==
  /\ "c1" \in DOMAIN unit
  /\ unit["c1"].pc = "done"
  /\ "c2" \notin DOMAIN unit
  /\ CallSearchSingle("c2", "rate_hawk")

NextAlone ==
  \/ FirstRequest
  \/ NextRequest
  \/ \E i \in DOMAIN unit, x \in Raised : Begin(i, x, 0)
  \/ \E i \in DOMAIN unit, e \in NetOutcomes, n \in 0..MaxOffers, x \in Raised :
       SearchSucceeds(i, e, n, x)
  \/ \E i \in DOMAIN unit, e \in NetOutcomes : SearchFails(i, e)
  \/ \E i \in DOMAIN unit, x \in Raised : Wake(i, x, 0)
  \/ Tick

SpecAlone == InitBreaker /\ [][NextAlone]_vars

\* ------------------------------------------ three suppliers, one deadline
\* The request of the scenario: all three configured suppliers are loaded
\* and selected, the deadline is 5 time units, A = goglobal answers with 4
\* offers at t = 1, B = rate_hawk (the adapter whose search raises) with 2
\* offers on its third attempt, C = tbo never answers.
Scenario == [search_timeout |-> 5, goglobal |-> 4, rate_hawk |-> 2, failing |-> 2]

InitScenario ==
  /\ adapters = Providers
  /\ breaker = [p \in adapters |-> NewBreaker]
  /\ req = IdleRequest
  /\ unit = << >>
  /\ failures = [p \in adapters |-> 0]
  /\ pool = NewPool
  /\ call = NewCall
  /\ boot = Booted(adapters)

\* adapter.search of A returns at t = 1
AnswerA(i) ==
  /\ i \in DOMAIN unit
  /\ unit[i].provider = "goglobal"
  /\ req.pc = "waiting" /\ req.remaining = Scenario.search_timeout - 1
  /\ SearchSucceeds(i, "ok", Scenario.goglobal, "none")

\* adapter.search of B raises on the first two attempts and returns on the
\* third
AnswerB(i, net) ==
  /\ i \in DOMAIN unit
  /\ unit[i].provider = "rate_hawk"
  /\ IF unit[i].attempt < Scenario.failing
     THEN SearchFails(i, net)
     ELSE /\ net = "ok"
          /\ req.remaining > 0
          /\ SearchSucceeds(i, net, Scenario.rate_hawk, "none")

NextScenario ==
  \/ StartSearchAll(TRUE, << >>, Scenario.search_timeout)
  \/ \E i \in DOMAIN unit : Begin(i, "none", 0)
  \/ \E i \in DOMAIN unit : AnswerA(i)
  \/ \E i \in DOMAIN unit, e \in NetOutcomes : AnswerB(i, e)
  \/ \E i \in DOMAIN unit : Wake(i, "none", 0)
  \/ Timeout
  \/ Return
  \/ Tick

SpecScenario == InitScenario /\ [][NextScenario]_vars

\* ------------------------------------------- lookups that take their time
\* One request after another for all loaded suppliers, where each
\* hotel-mapping lookup of an admitted adapter.search lasts 0..MaxLookup.
NextBlocking ==
  \/ StartSearchAll(TRUE, << >>, search_timeout)
  \/ \E i \in DOMAIN unit, d \in 0..MaxLookup : Begin(i, "none", d)
  \/ \E i \in DOMAIN unit, n \in 0..MaxOffers : SearchSucceeds(i, "ok", n, "none")
  \/ \E i \in DOMAIN unit, e \in NetOutcomes : SearchFails(i, e)
  \/ \E i \in DOMAIN unit, d \in 0..MaxLookup : Wake(i, "none", d)
  \/ GatherDone
  \/ Timeout
  \/ Return
  \/ Tick

SpecBlocking == Init /\ [][NextBlocking]_vars

\* ------------------------------------------------- the pool of clients
\* Callers that ask for the client of any supplier while the requests that
\* end call UniversalProvider.close.
NextSession ==
  \/ \E c \in Callers, p \in Providers : GetSession(c, p)
  \/ CloseAllSessions
  \/ CloseAllResume
  \/ \E p \in Providers : CloseProviderSession(p)
  \/ CloseProviderResume

SpecSession == Init /\ [][NextSession]_vars

\* -------------------------------------------------- the adapters by themselves
\* Requests with any criteria, the units of the suppliers preparing their
\* criteria in any order, and normalize called with any response.
NextAdapter ==
  \/ \E c \in CriteriaSet : NewRequest(c)
  \/ \E p \in Providers : PrepareCriteria(p)
  \/ \E p \in Providers, raw \in RawSet : CallNormalize(p, raw)

SpecAdapter == Init /\ [][NextAdapter]_vars

\* ------------------------------------------------- the filters by themselves
\* Every supplier loaded, and search_single called with any criteria while
\* the supplier has any catalogue.
NextFilter ==
  \E p \in Providers, c \in FilterCriteria :
    \E catalogue \in Catalogues(p) : SearchSingleFilters(p, c, catalogue)

SpecFilter == InitScenario /\ [][NextFilter]_vars

\* ================================================================ claims

\* the suppliers a request selects: the loaded ones its list names, or all
\* loaded ones when it names none of them
SelectedSuppliers(provs) ==
  LET known == Range(provs) \cap adapters IN
  IF known = {} THEN adapters ELSE known

\* what a task stands for in the result: what it returned, or a timeout
OwnOutcome(u) == IF u.pc = "done" THEN Outcome(u) ELSE TimeoutEntry

RECURSIVE SumOffers(_)
SumOffers(S) ==
  IF S = {} THEN 0
  ELSE LET i == CHOOSE x \in S : TRUE IN
       (IF unit[i].status = "success" THEN unit[i].offers ELSE 0) + SumOffers(S \ {i})

\* search_all returns in this step
Returns == req.pc = "waiting" /\ req'.pc = "returned"

\* task i runs search_single from its entry in this step
Begins(i) ==
  /\ unit[i].pc = "created"
  /\ i \in DOMAIN unit'
  /\ unit'[i].pc \notin {"created", "cancelled"}

\* task i leaves its backoff sleep for the next attempt in this step
Wakes(i) ==
  /\ unit[i].pc = "sleeping" /\ unit[i].delay = 0
  /\ i \in DOMAIN unit'
  /\ unit'[i] # unit[i]
  /\ unit'[i].pc # "cancelled"

\* the call of task i that was in flight returns / raises in this step
CallSucceeded(i) ==
  /\ unit[i].pc = "inflight"
  /\ unit'[i].pc \notin {"inflight", "cancelled"}
  /\ failures'[unit[i].provider] = 0

CallFailed(i) ==
  /\ unit[i].pc = "inflight"
  /\ unit'[i].pc \notin {"inflight", "cancelled"}
  /\ failures'[unit[i].provider] = failures[unit[i].provider] + 1

\* reset_timeout has elapsed since the last failure / has not
Due(cb) == cb.since_failure # None /\ cb.since_failure >= reset_timeout

OpenFresh(cb) == cb.state = "open" /\ ~Due(cb)

\* C1: when search_all returns for a non-empty hotel list, the providers map
\* has exactly the selected suppliers as keys and each entry is the outcome
\* of a unit of that supplier.
C1_OneEntryPerSelectedSupplier ==
  (req.pc = "returned" /\ req.hotels) =>
    /\ DOMAIN req.provider_results = SelectedSuppliers(req.providers)
    /\ \A p \in DOMAIN req.provider_results :
         \E i \in DOMAIN unit :
           unit[i].provider = p /\ req.provider_results[p] = OwnOutcome(unit[i])

\* C2: when the deadline expires, every unit that is still in flight is
\* cancelled and its supplier is reported as timeout with no offers.
C2_InFlightIsTimeout ==
  [][(Returns /\ req'.timed_out) =>
       \A i \in DOMAIN unit :
         ~Finished(unit[i]) =>
           /\ unit'[i].pc = "cancelled"
           /\ req'.provider_results[unit[i].provider] = TimeoutEntry]_vars

\* C3: when the deadline expires, every unit that has finished is reported
\* with what it returned, and total_offers counts the offers of the units
\* that finished with success.
C3_FinishedKeepOutcome ==
  [][(Returns /\ req'.timed_out) =>
       /\ \A i \in DOMAIN unit :
            unit[i].pc = "done" =>
              req'.provider_results[unit[i].provider] = Outcome(unit[i])
       /\ req'.total_offers = SumOffers({i \in DOMAIN unit : unit[i].pc = "done"})]_vars

\* C4: whenever search_all returns, a supplier whose one unit completed is
\* reported with the outcome of that unit, whatever the other units did.
C4_FailureIsolation ==
  [][Returns =>
       \A i \in DOMAIN unit :
         (/\ unit[i].pc = "done"
          /\ \A j \in DOMAIN unit : unit[j].provider = unit[i].provider => j = i) =>
           /\ unit[i].provider \in DOMAIN req'.provider_results
           /\ req'.provider_results[unit[i].provider] = Outcome(unit[i])]_vars

\* No name occurs twice in providers_to_search.  On such requests the three
\* statements about the fan-out above hold of the code:
NoRepeatedName ==
  \A i, j \in 1..Len(req.providers_to_search) :
    req.providers_to_search[i] = req.providers_to_search[j] => i = j

InFlightIsTimeout_NoRepeat ==
  [][(Returns /\ req'.timed_out /\ NoRepeatedName) =>
       \A i \in DOMAIN unit :
         ~Finished(unit[i]) =>
           /\ unit'[i].pc = "cancelled"
           /\ req'.provider_results[unit[i].provider] = TimeoutEntry]_vars

FinishedKeepOutcome_NoRepeat ==
  [][(Returns /\ req'.timed_out /\ NoRepeatedName) =>
       /\ \A i \in DOMAIN unit :
            unit[i].pc = "done" =>
              req'.provider_results[unit[i].provider] = Outcome(unit[i])
       /\ req'.total_offers = SumOffers({i \in DOMAIN unit : unit[i].pc = "done"})]_vars

FailureIsolation_NoRepeat ==
  [][(Returns /\ NoRepeatedName) =>
       \A i \in DOMAIN unit :
         unit[i].pc = "done" =>
           /\ unit[i].provider \in DOMAIN req'.provider_results
           /\ req'.provider_results[unit[i].provider] = Outcome(unit[i])]_vars

\* C5: a Closed breaker has seen fewer than failure_threshold failed calls
\* in a row, and it becomes Open in exactly the step in which the number of
\* failed calls in a row reaches failure_threshold.
C5_OpensAtThreshold ==
  [][\A p \in DOMAIN breaker :
       breaker[p].state = "closed" =>
         /\ failures[p] < failure_threshold
         /\ breaker'[p].state # "half_open"
         /\ (breaker'[p].state = "open" <=> failures'[p] = failure_threshold)]_vars

C5_Witness ==
  \E p \in DOMAIN breaker :
    /\ breaker[p].state = "open"
    /\ failures[p] = failure_threshold
    /\ breaker[p].since_failure = 0

\* C6: while a breaker is Open and reset_timeout has not elapsed, a
\* search_single that starts returns the circuit-open error without a call,
\* a retry makes no call, and neither changes the breaker.
C6_OpenRejectsWithoutCall ==
  [][\A i \in DOMAIN unit :
       (unit[i].provider \in adapters /\ OpenFresh(breaker[unit[i].provider])) =>
         /\ Begins(i) =>
              /\ unit'[i] = ReturnError(unit[i], "circuit_open")
              /\ unit[i].calls = 0
              /\ breaker' = breaker
         /\ Wakes(i) =>
              /\ unit'[i].pc # "inflight"
              /\ unit'[i].calls = 0 \/ unit'[i].calls = unit[i].calls
              /\ breaker' = breaker]_vars

C6_Witness ==
  \E i \in DOMAIN unit :
    /\ unit[i].pc = "done" /\ unit[i].reason = "circuit_open"
    /\ unit[i].provider \in adapters
    /\ OpenFresh(breaker[unit[i].provider])

\* the two error outcomes that say the breaker is open
Rejections == {"circuit_open", "protection_triggered"}

\* C7: an Open breaker becomes HalfOpen only in a step that accesses it
\* after reset_timeout has elapsed since the last failure, and such an
\* access always moves it; it becomes Closed only by reset(); an access
\* before reset_timeout leaves it as it is; a call made while it is
\* HalfOpen is admitted, never rejected; a step in which time passes
\* leaves it Open.
C7_LazyHalfOpen ==
  [][\A p \in DOMAIN breaker :
       /\ breaker[p].state = "open" =>
            /\ breaker'[p].state = "half_open" => Due(breaker[p])
            /\ breaker'[p].since_failure > breaker[p].since_failure =>
                 breaker'[p].state = "open"
            /\ breaker'[p].state = "closed" => breaker'[p] = NewBreaker
            /\ \A i \in DOMAIN unit :
                 (unit[i].provider = p /\ Begins(i)) =>
                   IF Due(breaker[p])
                   THEN /\ breaker'[p] = [breaker[p] EXCEPT !.state = "half_open"]
                        /\ unit'[i].reason \notin Rejections
                   ELSE breaker'[p] = breaker[p]
       /\ breaker[p].state = "half_open" =>
            \A i \in DOMAIN unit :
              (unit[i].provider = p /\ (Begins(i) \/ Wakes(i))) =>
                /\ unit'[i].reason \notin Rejections
                /\ unit'[i].pc = "inflight" => unit'[i].admitted = "half_open"]_vars

C7_Witness ==
  \E i \in DOMAIN unit :
    /\ unit[i].pc = "inflight" /\ unit[i].admitted = "half_open"
    /\ breaker[unit[i].provider].state = "half_open"

\* C8: when a call that was admitted while the breaker was HalfOpen
\* succeeds, the breaker is Closed with failure counter 0 right after.
C8_TrialSuccessCloses ==
  [][\A i \in DOMAIN unit :
       (unit[i].pc = "inflight" /\ unit[i].admitted = "half_open" /\ CallSucceeded(i)) =>
         /\ breaker'[unit[i].provider].state = "closed"
         /\ breaker'[unit[i].provider].failure_count = 0]_vars

\* C9: when a call that was admitted while the breaker was HalfOpen fails,
\* the breaker is Open right after and its reset_timeout window starts anew.
C9_TrialFailureOpens ==
  [][\A i \in DOMAIN unit :
       (unit[i].pc = "inflight" /\ unit[i].admitted = "half_open" /\ CallFailed(i)) =>
         /\ breaker'[unit[i].provider].state = "open"
         /\ breaker'[unit[i].provider].since_failure = 0]_vars

\* C10: one search_single invokes adapter.search at most max_retries times;
\* it goes to sleep only before the last attempt, and a failure of the last
\* attempt returns an error outcome.
C10_AtMostMaxRetriesCalls ==
  [][\A i \in (DOMAIN unit) \cap (DOMAIN unit') :
       /\ unit'[i].calls <= max_retries
       /\ (unit'[i].pc = "inflight" /\ unit[i].pc # "inflight") =>
            unit'[i].calls = unit[i].calls + 1
       /\ (unit'[i].pc = "sleeping" /\ unit[i].pc # "sleeping") =>
            unit[i].attempt < max_retries - 1
       /\ (unit[i].attempt = max_retries - 1 /\ CallFailed(i)) =>
            unit'[i].pc = "done" /\ unit'[i].status = "error"]_vars

C10_Witness ==
  \E i \in DOMAIN unit :
    unit[i].pc = "done" /\ unit[i].status = "error" /\ unit[i].reason \in {"timeout", "error"}

\* an attempt of task i fails in this step: the task goes to a backoff
\* sleep or returns the error outcome of the last attempt
GoesToSleep(i) ==
  /\ unit'[i].pc = "sleeping"
  /\ unit[i].pc # "sleeping" \/ unit'[i].attempt # unit[i].attempt

AttemptFailed(i) ==
  \/ GoesToSleep(i)
  \/ /\ unit[i].pc \in {"created", "inflight", "sleeping"}
     /\ unit'[i].pc = "done" /\ unit'[i].status = "error"
     /\ unit'[i].reason \in {"timeout", "error"}

\* C11: the sleep before the k-th retry of a search_single lasts
\* base_delay * 2^(k-1), after a timeout and after any other error, and the
\* delays of successive retries grow strictly.
C11_BackoffDoubles ==
  [][\A i \in (DOMAIN unit) \cap (DOMAIN unit') :
       GoesToSleep(i) =>
         LET k == unit'[i].attempt + 1 IN
         /\ unit'[i].delay = base_delay * 2^(k - 1)
         /\ k > 1 => Delay(k - 1) > Delay(k - 2)]_vars

C11_Witness ==
  \E i \in DOMAIN unit :
    unit[i].pc = "sleeping" /\ unit[i].attempt = 1 /\ unit[i].delay = 2 * base_delay

\* C12: every failed attempt of a search_single, whichever step of the
\* attempt raised, adds exactly one to the failure counter of the
\* supplier's breaker.
C12_EveryFailureCounts ==
  [][\A i \in (DOMAIN unit) \cap (DOMAIN unit') :
       AttemptFailed(i) =>
         breaker'[unit[i].provider].failure_count =
           breaker[unit[i].provider].failure_count + 1]_vars

\* C13: in the scenario, once A has answered and B's third attempt has
\* succeeded, search_all returns when the 5 time units are over, with
\* A = success with 4 offers, B = success with 2 offers, C = timeout with
\* no offers, and total_offers = 6.
C13_Scenario ==
  [][(/\ Returns
      /\ \E i \in DOMAIN unit : unit[i].provider = "goglobal" /\ unit[i].pc = "done"
      /\ \E i \in DOMAIN unit :
           /\ unit[i].provider = "rate_hawk"
           /\ unit[i].pc = "done" /\ unit[i].status = "success") =>
       /\ req.remaining = 0
       /\ req'.timed_out
       /\ req'.provider_results =
            [p \in Providers |->
               CASE p = "goglobal" -> [status |-> "success", offers |-> 4, reason |-> "none"]
                 [] p = "rate_hawk" -> [status |-> "success", offers |-> 2, reason |-> "none"]
                 [] OTHER -> [status |-> "timeout", offers |-> 0, reason |-> "timeout"]]
       /\ req'.total_offers = 6]_vars

C13_Witness ==
  /\ req.pc = "returned" /\ req.timed_out
  /\ req.total_offers = 6
  /\ \E i \in DOMAIN unit : unit[i].provider = "tbo" /\ unit[i].pc = "cancelled"

\* C14: search_all returns no later than search_timeout after it started
\* its units: while it waits the deadline has not passed, and it returns
\* with the deadline not passed.
C14_ReturnsByDeadline ==
  [][/\ req'.pc = "waiting" => req'.remaining >= 0
     /\ Returns => req.remaining >= 0]_vars

\* When no lookup holds the event loop, the deadline is kept:
ReturnsByDeadline_NoLookup == req.pc = "waiting" => req.remaining >= 0

\* C15: the units search_all starts are those of the loaded suppliers the
\* explicit list names, and those of all loaded suppliers when the list is
\* empty or names no loaded supplier; names that are not loaded are ignored.
C15_SupplierSelection ==
  [][(req.pc = "idle" /\ req'.pc = "waiting") =>
       LET named == {s \in adapters : \E k \in 1..Len(req'.providers) : req'.providers[k] = s}
           searched == {unit'[i].provider : i \in DOMAIN unit'}
       IN /\ named # {} => searched = named
          /\ named = {} => searched = adapters
          /\ Range(req'.providers_to_search) = searched]_vars

C15_Witness ==
  /\ req.pc = "waiting"
  /\ req.providers = <<"tbo", "rate_hawk">>
  /\ req.providers_to_search = <<"rate_hawk">>
  /\ DOMAIN unit = {1} /\ unit[1].provider = "rate_hawk"

\* the sum of the offers of the entries with status success
RECURSIVE SumSuccess(_, _)
SumSuccess(results, K) ==
  IF K = {} THEN 0
  ELSE LET k == CHOOSE x \in K : TRUE IN
       (IF results[k].status = "success" THEN results[k].offers ELSE 0)
         + SumSuccess(results, K \ {k})

\* C16: in every result of search_all, total_offers is the sum of the
\* offers of the entries with status success, and the three summary counts
\* add up to the number of entries.
C16_SummaryAddsUp ==
  req.pc = "returned" =>
    /\ req.total_offers = SumSuccess(req.provider_results, DOMAIN req.provider_results)
    /\ CountStatus(req.provider_results, "success")
         + CountStatus(req.provider_results, "error")
         + CountStatus(req.provider_results, "timeout")
         = Cardinality(DOMAIN req.provider_results)

\* On requests that repeat no name the summary adds up:
SummaryAddsUp_NoRepeat ==
  (req.pc = "returned" /\ NoRepeatedName) =>
    /\ req.total_offers = SumSuccess(req.provider_results, DOMAIN req.provider_results)
    /\ CountStatus(req.provider_results, "success")
         + CountStatus(req.provider_results, "error")
         + CountStatus(req.provider_results, "timeout")
         = Cardinality(DOMAIN req.provider_results)

\* get_session returns to caller c in this step
Receives(c) == pool'.held[c] # pool.held[c]

\* the open client the pool holds for a supplier, 0 if it holds none
OpenClientOf(pl, p) ==
  IF \E i \in 1..Len(pl.sessions) :
       pl.sessions[i].name = p /\ pl.sessions[i].client \in pl.open
  THEN LET i == CHOOSE i \in 1..Len(pl.sessions) : pl.sessions[i].name = p
       IN pl.sessions[i].client
  ELSE 0

\* C17: of the callers that ask for the client of a supplier the pool holds
\* no client for, the first makes the pool create one client, and every
\* one after it receives that client and no further client is created.
C17_OneClientPerSupplier ==
  [][\A c \in Callers :
       Receives(c) =>
         LET p == pool'.held[c].provider
             n == pool'.held[c].client
         IN /\ pool'.created <= pool.created + 1
            /\ OpenClientOf(pool', p) = n
            /\ OpenClientOf(pool, p) # 0 =>
                 /\ n = OpenClientOf(pool, p)
                 /\ pool'.created = pool.created]_vars

C17_Witness ==
  /\ pool.created = 1
  /\ \A c \in Callers : pool.held[c] = [provider |-> "rate_hawk", client |-> 1]

\* close_all_sessions returns in this step
Completes ==
  /\ pool'.closer.pc = "done"
  /\ pool'.closer # pool.closer

\* C18: when close_all_sessions has completed, every client the pool
\* created is closed, close() was invoked at most once on each of them, and
\* the pool holds no client.
C18_CloseAllClosesAll ==
  [][Completes =>
       /\ pool'.open = {}
       /\ pool'.sessions = << >> /\ pool'.global_session = 0
       /\ \A n \in 1..pool'.created : pool'.closes[n] <= 1]_vars

\* In every state close() has been invoked at most once on each client:
AtMostOneClose == \A n \in 1..pool.created : pool.closes[n] <= 1

\* C19: the client get_session returns is not closed.
C19_NeverReturnsClosed ==
  [][\A c \in Callers :
       Receives(c) =>
         /\ pool'.held[c].client # 0
         /\ pool'.held[c].client \in pool'.open]_vars

\* a caller holds the open client that replaced the one close_all_sessions,
\* still in progress, has just closed
C19_Witness ==
  \E c \in Callers :
    /\ pool.closer.pc = "iterating"
    /\ pool.held[c].client \in pool.open
    /\ pool.closer.idx > 0
    /\ pool.sessions[pool.closer.idx] = [name |-> pool.held[c].provider,
                                          client |-> pool.held[c].client]

\* C20: when the network exchange of an adapter.search fails, the call
\* counts as a failed call of the breaker and search_single goes to a retry
\* or returns an error outcome, for every adapter.
C20_AdaptersRaise ==
  [][\A i \in (DOMAIN unit) \cap (DOMAIN unit') :
       (/\ unit[i].pc = "inflight"
        /\ unit'[i].pc \notin {"inflight", "cancelled"}
        /\ unit'[i].exchange = "failed") =>
         /\ CallFailed(i)
         /\ unit'[i].pc = "sleeping" \/ unit'[i].status = "error"]_vars

\* RateHawkProvider.search does raise:
RateHawkRaises ==
  [][\A i \in (DOMAIN unit) \cap (DOMAIN unit') :
       (/\ unit[i].pc = "inflight" /\ unit[i].provider = "rate_hawk"
        /\ unit'[i].pc \notin {"inflight", "cancelled"}
        /\ unit'[i].exchange = "failed") =>
         /\ CallFailed(i)
         /\ unit'[i].pc = "sleeping" \/ unit'[i].status = "error"]_vars

\* a step in which a unit called prepare_meal_type_criteria
Prepares ==
  /\ call'.provider_criteria # << >>
  /\ call'.provider_criteria # call.provider_criteria

\* C21: prepare_meal_type_criteria of every adapter leaves the criteria
\* dict of the request as it was given, whatever meal_types and meal_type
\* it holds.
C21_CriteriaUnchanged ==
  [][Prepares => call'.criteria = call.criteria]_vars

\* GoGlobal and TBO do leave it unchanged:
CriteriaUnchanged_NotRateHawk ==
  \A p \in Providers \ {"rate_hawk"} :
    PrepareMealTypeCriteria(p, call.criteria).criteria = call.criteria

\* the entries of a response that are objects
WellFormed(raw) ==
  {hk \in (1..Len(raw.hotels)) \X (1..MaxEntries) :
     /\ raw.hotels[hk[1]].kind \in {"object", "no_id"}
     /\ hk[2] <= Len(raw.hotels[hk[1]].entries)
     /\ raw.hotels[hk[1]].entries[hk[2]] # "scalar"}

\* C22: normalize of every adapter never raises, the offers it returns are
\* made of well-formed entries of the response only, and of an absent or
\* empty response it returns the empty list.
C22_NormalizeNeverRaises ==
  LET n == call.normalize IN
  n.provider # "none" =>
    /\ ~n.result.raised
    /\ Range(n.result.offers) \subseteq WellFormed(n.raw)
    /\ (~n.raw.present \/ n.raw.hotels = << >>) => n.result.offers = << >>

\* RateHawk and TBO do not raise:
NormalizeNeverRaises_NotGoGlobal ==
  LET n == call.normalize IN
  n.provider \in {"rate_hawk", "tbo"} =>
    /\ ~n.result.raised
    /\ Range(n.result.offers) \subseteq WellFormed(n.raw)
    /\ (~n.raw.present \/ n.raw.hotels = << >>) => n.result.offers = << >>

\* C23: a search_single for a supplier name that is not loaded returns, in
\* its first step, an error outcome without offers: it makes no call, never
\* sleeps or retries, and the breakers stay as they are.
C23_NotLoadedImmediateError ==
  [][/\ \A i \in DOMAIN unit :
          (unit[i].provider \notin adapters /\ Begins(i)) =>
            /\ unit'[i].pc = "done"
            /\ unit'[i].status = "error" /\ unit'[i].offers = 0
            /\ unit'[i].reason = "not_available"
            /\ unit'[i].calls = 0
            /\ breaker' = breaker
            /\ failures' = failures
     /\ \A i \in DOMAIN unit' :
          unit'[i].provider \notin adapters =>
            unit'[i].pc \in {"created", "done", "cancelled"}]_vars

C23_Witness ==
  \E i \in DOMAIN unit :
    /\ unit[i].provider \notin adapters
    /\ unit[i].pc = "done" /\ unit[i].reason = "not_available"
    /\ \E p \in DOMAIN breaker : breaker[p].state = "open"

\* the calls in flight that the HalfOpen breaker of supplier p admitted
Trials(p) ==
  {i \in DOMAIN unit :
     /\ unit[i].provider = p
     /\ unit[i].pc = "inflight" /\ unit[i].admitted = "half_open"}

\* C24: of the calls a HalfOpen breaker admitted at most one is in flight
\* at any time: while the trial call has not completed no other call is
\* sent to the supplier.
C24_OneTrialAtATime ==
  \A p \in DOMAIN breaker : Cardinality(Trials(p)) <= 1

\* C25: a breaker that is Open or HalfOpen has a failure counter of at
\* least failure_threshold.
C25_OpenHasThreshold ==
  \A p \in DOMAIN breaker :
    breaker[p].state \in {"open", "half_open"} =>
      breaker[p].failure_count >= failure_threshold

\* task i is cancelled in this step
Cancelled(i) ==
  /\ ~Finished(unit[i])
  /\ i \in DOMAIN unit'
  /\ unit'[i].pc = "cancelled"

\* C26: the step in which the deadline cancels a unit leaves every breaker
\* (state, failure counter, time of the last failure) and the count of
\* failed calls as they were, the supplier of the unit is reported as
\* timeout, and a cancelled unit never runs again.
C26_CancelIsNoFailure ==
  [][\A i \in DOMAIN unit :
       /\ Cancelled(i) =>
            /\ breaker' = breaker
            /\ failures' = failures
            /\ Returns =>
                 req'.provider_results[unit[i].provider].status = "timeout"
       /\ unit[i].pc = "cancelled" =>
            \/ i \notin DOMAIN unit'
            \/ unit'[i] = unit[i]
            \/ unit'[i] = NewUnit(unit'[i].provider)]_vars

C26_Witness ==
  /\ req.pc = "returned" /\ req.timed_out
  /\ \E i \in DOMAIN unit :
       /\ unit[i].pc = "cancelled"
       /\ breaker[unit[i].provider].failure_count > 0

\* C27: when the breaker is Open at the moment a retry of search_single
\* reaches it, the search_single returns the error outcome of the rejection
\* in that step: it makes no call and does not sleep again, and the breaker
\* stays as it is.
C27_RejectionNotRetried ==
  [][\A i \in DOMAIN unit :
       (/\ unit[i].provider \in adapters
        /\ Wakes(i)
        /\ UpdateState(breaker[unit[i].provider]).state = "open") =>
         /\ unit'[i].pc = "done"
         /\ unit'[i].status = "error" /\ unit'[i].offers = 0
         /\ unit'[i].reason = "protection_triggered"
         /\ breaker' = breaker
         /\ failures' = failures]_vars

C27_Witness ==
  \E i \in DOMAIN unit :
    /\ unit[i].pc = "done" /\ unit[i].reason = "protection_triggered"
    /\ OpenFresh(breaker[unit[i].provider])

\* search_all creates its tasks in this step
Starts == req.pc = "idle" /\ req'.pc = "waiting"

\* C28: search_all starts exactly one unit for each selected supplier, and
\* when it returns every unit it started has completed or is cancelled,
\* whatever the explicit supplier list is.
C28_NoUnitOutlivesRequest ==
  [][/\ Starts =>
          \A p \in Providers :
            Cardinality({i \in DOMAIN unit' : unit'[i].provider = p}) =
              (IF p \in SelectedSuppliers(req'.providers) THEN 1 ELSE 0)
     /\ Returns => \A i \in DOMAIN unit' : Finished(unit'[i])]_vars

\* With no repeated name it does:
NoUnitOutlivesRequest_NoRepeat ==
  [][/\ (Starts /\ NoRepeatedName') =>
          \A p \in Providers :
            Cardinality({i \in DOMAIN unit' : unit'[i].provider = p}) =
              (IF p \in SelectedSuppliers(req'.providers) THEN 1 ELSE 0)
     /\ (Returns /\ NoRepeatedName) =>
          \A i \in DOMAIN unit' : Finished(unit'[i])]_vars

\* the positions of providers_to_search that the loop over the gathered
\* results visits
Visited(pts) == 1..Len(DictKeys(pts, Len(pts)))

\* the task whose result that loop stores at position k
TaskAt(pts, k) == ProviderTask(pts, DictKeys(pts, Len(pts))[k])

RECURSIVE SumAt(_, _)
SumAt(pts, K) ==
  IF K = {} THEN 0
  ELSE LET k == CHOOSE x \in K : TRUE
           u == unit[TaskAt(pts, k)]
       IN (IF u.status = "success" THEN u.offers ELSE 0) + SumAt(pts, K \ {k})

\* C29: when all units complete before the deadline, the providers map and
\* total_offers that search_all returns are determined by what the units
\* returned and by the supplier list alone, not by the order in which the
\* units completed.
C29_OrderIndependent ==
  [][(Returns /\ ~req'.timed_out) =>
       LET pts == req.providers_to_search
           last(q) == CHOOSE k \in Visited(pts) :
                        pts[k] = q /\ \A j \in Visited(pts) : j > k => pts[j] # q
       IN /\ DOMAIN req'.provider_results = {pts[k] : k \in Visited(pts)}
          /\ \A q \in DOMAIN req'.provider_results :
               req'.provider_results[q] = Outcome(unit[TaskAt(pts, last(q))])
          /\ req'.total_offers = SumAt(pts, Visited(pts))]_vars

\* a request returns whose units completed in another order than they
\* were created in
C29_Witness ==
  /\ req.pc = "returned" /\ ~req.timed_out
  /\ \E a, b \in 1..Len(req.completed) :
       a < b /\ req.completed[a] > req.completed[b]
  /\ \E p, q \in DOMAIN req.provider_results :
       req.provider_results[p] # req.provider_results[q]

\* C30: a call that succeeds while the breaker is Closed leaves it Closed
\* with failure counter 0, so that the counter of a Closed breaker is the
\* number of failed calls since the last success, and the breaker opens
\* only when that number reaches failure_threshold.
C30_SuccessResetsCounter ==
  [][\A p \in DOMAIN breaker :
       /\ \A i \in DOMAIN unit :
            (unit[i].provider = p /\ breaker[p].state = "closed" /\ CallSucceeded(i)) =>
              /\ breaker'[p].state = "closed"
              /\ breaker'[p].failure_count = 0
       /\ breaker'[p].state = "closed" =>
            breaker'[p].failure_count = failures'[p]
       /\ (breaker[p].state = "closed" /\ breaker'[p].state = "open") =>
            failures'[p] >= failure_threshold]_vars

\* a success after failures: the breaker has a last failure, is Closed and
\* counts 0 while a search_single has returned offers
C30_Witness ==
  \E p \in DOMAIN breaker :
    /\ breaker[p].state = "closed"
    /\ breaker[p].failure_count = 0
    /\ breaker[p].since_failure = 0
    /\ \E i \in DOMAIN unit :
         unit[i].provider = p /\ unit[i].pc = "done" /\ unit[i].status = "success"

\* reset_circuit_breaker acts on the breaker of supplier p in this step: no
\* task moves, and the breaker becomes Closed or loses failures
Resets(p) ==
  /\ unit' = unit
  /\ \/ breaker[p].state # "closed" /\ breaker'[p].state = "closed"
     \/ breaker'[p].failure_count < breaker[p].failure_count

\* C31: reset_circuit_breaker leaves the breaker of a loaded supplier
\* Closed with failure counter 0 and no last-failure time, whatever its
\* state was; a search_single that starts on such a breaker is not
\* rejected; and no step gives a breaker to a supplier that is not loaded.
C31_ResetForcesClosed ==
  [][/\ DOMAIN breaker' = adapters
     /\ \A p \in DOMAIN breaker :
          /\ Resets(p) =>
               /\ breaker'[p].state = "closed"
               /\ breaker'[p].failure_count = 0
               /\ breaker'[p].since_failure = None
               /\ \A q \in DOMAIN breaker \ {p} : breaker'[q] = breaker[q]
          /\ breaker[p] = [state |-> "closed", failure_count |-> 0,
                           since_failure |-> None] =>
               \A i \in DOMAIN unit :
                 (unit[i].provider = p /\ Begins(i)) =>
                   /\ unit'[i].reason \notin Rejections
                   /\ unit'[i].pc = "inflight" \/ AttemptFailed(i)]_vars

\* a breaker without failures while a task of its supplier sleeps after a
\* failed call: it was reset in between
C31_Witness ==
  \E p \in DOMAIN breaker :
    /\ breaker[p].state = "closed"
    /\ breaker[p].failure_count = 0
    /\ breaker[p].since_failure = None
    /\ \E i \in DOMAIN unit :
         /\ unit[i].provider = p /\ unit[i].pc = "sleeping"
         /\ unit[i].exchange = "failed"
    /\ \E i \in DOMAIN unit :
         unit[i].provider = p /\ unit[i].pc = "inflight"

\* the client stored for a supplier in _sessions, 0 if it has none
ClientOf(p) ==
  IF Index(pool.sessions, p) = 0 THEN 0
  ELSE pool.sessions[Index(pool.sessions, p)].client

\* only get_session has been called so far: no client was ever closed
OnlyGetSession ==
  /\ pool.closer.pc = "idle" /\ pool.deleting = "none"
  /\ \A n \in 1..Len(pool.closes) : pool.closes[n] = 0

FailedNames ==
  {boot.failed_providers[i].name : i \in 1..Len(boot.failed_providers)}

\* the iteration of this step is for supplier p and meets `kind`
Loads(p, kind) ==
  /\ boot.pc = "loading"
  /\ ConfigOrder[boot.next + 1] = p
  /\ boot'.failed_providers = Failed(boot.failed_providers, p, kind)
  /\ (p \in adapters') = (kind \in {"breaker_error", "loaded"})
  /\ (p \in DOMAIN breaker') = (kind = "loaded")

\* C33: when _load_adapters has ended, no supplier whose adapter or breaker
\* could not be created is loaded, every loaded supplier has an adapter and
\* a fresh breaker of its own, and the construction has failed exactly when
\* no supplier is loaded.
C33_LoadingAtBoot ==
  boot.pc # "loading" =>
    /\ FailedNames \cap adapters = {}
    /\ adapters = DOMAIN breaker
    /\ \A p \in DOMAIN breaker : breaker[p] = NewBreaker
    /\ (boot.pc = "failed") = (adapters = {})

\* What holds of the loading: a supplier whose adapter cannot be created is not loaded,
\* an inactive supplier is skipped, a supplier that meets no error gets its
\* adapter and a breaker of its own, an iteration changes nothing for the
\* other suppliers, and the construction fails exactly when no adapter at
\* all was stored.
LoadingIsolated ==
  [][\A p \in Providers :
       /\ (Loads(p, "import_error") \/ Loads(p, "adapter_error")
             \/ Loads(p, "inactive"))
            => p \notin adapters' /\ p \notin DOMAIN breaker'
       /\ Loads(p, "inactive") => p \notin FailedNames'
       /\ Loads(p, "loaded") => p \in adapters' /\ breaker'[p] = NewBreaker
       /\ (boot.pc = "loading" /\ ConfigOrder[boot.next + 1] # p) =>
            /\ (p \in adapters') = (p \in adapters)
            /\ (p \in DOMAIN breaker') = (p \in DOMAIN breaker)
       /\ (boot'.pc = "failed") =
            (boot'.next = Len(ConfigOrder) /\ adapters' = {})]_vars

\* the positions in the catalogue of the offers of a list
Ids(offers) == {offers[i].id : i \in 1..Len(offers)}

\* the offers of the catalogue whose meal plan is the supplier's value of
\* one of the requested codes
MatchingAnyMealType(p, catalogue, meal_types) ==
  {o.id : o \in {x \in Range(catalogue) :
                   GetStandardCode(x.meal_plan, p) \in Range(meal_types)}}

\* search_single has returned for criteria with meal_types and without
\* room_category
FilteredByMeal ==
  /\ call.filtered.provider # "none"
  /\ "meal_types" \in DOMAIN call.filtered.criteria
  /\ "room_category" \notin DOMAIN call.filtered.criteria

\* C34: when criteria carries meal_types, a successful outcome of
\* search_single has exactly the offers of the supplier whose meal plan
\* corresponds to any one of the requested meal types, for every supplier.
C34_MealTypesOr ==
  (FilteredByMeal /\ call.filtered.result.status = "success") =>
    Ids(call.filtered.result.offers) =
      MatchingAnyMealType(call.filtered.provider, call.filtered.catalogue,
                          call.filtered.criteria.meal_types)

\* What holds of the meal filter: the same for the suppliers filtered after
\* normalize when the table has a value for one of the requested codes, and
\* for GoGlobal when one code is requested and the table has a value for it.
MealTypesOr_Supported ==
  LET f == call.filtered IN
  (/\ FilteredByMeal /\ f.result.status = "success"
   /\ \/ /\ f.provider \in {"rate_hawk", "tbo"}
         /\ \E mt \in Range(f.criteria.meal_types) :
              IsMealTypeSupported(f.provider, mt)
      \/ /\ f.provider = "goglobal"
         /\ Len(f.criteria.meal_types) = 1
         /\ IsMealTypeSupported(f.provider, f.criteria.meal_types[1]))
  => Ids(f.result.offers) =
       MatchingAnyMealType(f.provider, f.catalogue, f.criteria.meal_types)

\* search_single has returned for criteria with room_category and without
\* meal_types
FilteredByRoom ==
  /\ call.filtered.provider # "none"
  /\ "room_category" \in DOMAIN call.filtered.criteria
  /\ "meal_types" \notin DOMAIN call.filtered.criteria

\* C35: when criteria carries room_category, search_single succeeds for
\* every list of normalized offers, offers without a room_category
\* included, and its outcome has exactly the offers whose room_category is
\* the requested one ignoring case.
C35_RoomCategoryFilter ==
  FilteredByRoom =>
    /\ call.filtered.result.status = "success"
    /\ Ids(call.filtered.result.offers) =
         {o.id : o \in {x \in Range(call.filtered.catalogue) :
                          /\ x.room_category # NoCategory
                          /\ Lower(x.room_category) =
                               Lower(call.filtered.criteria.room_category)}}

\* What holds of the room filter: the same when every offer has a
\* room_category.
RoomCategoryFilter_AllSet ==
  (/\ FilteredByRoom
   /\ \A o \in Range(call.filtered.catalogue) : o.room_category # NoCategory)
  => /\ call.filtered.result.status = "success"
     /\ Ids(call.filtered.result.offers) =
          {o.id : o \in {x \in Range(call.filtered.catalogue) :
                           Lower(x.room_category) =
                             Lower(call.filtered.criteria.room_category)}}

\* a call of supplier p ends in this step, in the way given
SomeCall(p, Ends(_)) ==
  \E i \in DOMAIN unit : unit[i].provider = p /\ Ends(i)

\* C36: the state of a breaker changes only from Closed to Open by a failed
\* call that brings the counter to the threshold, from Open to HalfOpen once
\* reset_timeout has elapsed, from HalfOpen to Closed by a successful call,
\* from HalfOpen to Open by a failed call, and from any state to Closed by
\* reset(); an Open breaker never becomes Closed in another way.
C36_OnlyTheseEdges ==
  [][\A p \in DOMAIN breaker :
       LET a == breaker[p].state
           b == breaker'[p].state
       IN a # b =>
            \/ /\ a = "closed" /\ b = "open"
               /\ SomeCall(p, CallFailed)
               /\ breaker'[p].failure_count >= failure_threshold
            \/ /\ a = "open" /\ b = "half_open"
               /\ Due(breaker[p])
            \/ /\ a = "half_open" /\ b = "closed"
               /\ SomeCall(p, CallSucceeded)
            \/ /\ a = "half_open" /\ b = "open"
               /\ SomeCall(p, CallFailed)
            \/ /\ b = "closed"
               /\ Resets(p)
               /\ breaker'[p].failure_count = 0
               /\ breaker'[p].since_failure = None]_vars

\* a call admitted before the breaker opened has succeeded since: the
\* breaker is still Open, with its counter back at 0
C36_Witness ==
  \E p \in DOMAIN breaker :
    /\ OpenFresh(breaker[p])
    /\ breaker[p].failure_count = 0
    /\ \E i \in DOMAIN unit :
         /\ unit[i].provider = p /\ unit[i].pc = "done"
         /\ unit[i].status = "success"

\* the first search_single has returned the error of its last attempt:
\* every one of its max_retries attempts raised; the next has not begun
Exhausted ==
  /\ "c1" \in DOMAIN unit
  /\ unit["c1"].pc = "done"
  /\ unit["c1"].reason \in {"timeout", "error"}
  /\ "c2" \in DOMAIN unit => unit["c2"].pc = "created"

\* C37: with max_retries at least failure_threshold, a single search_single
\* on a Closed breaker with counter 0 in which every attempt raises leaves
\* the breaker Open (so that the next request is rejected without a call),
\* wherever in the attempt the exception is raised.
C37_ExhaustedRetriesOpen ==
  (max_retries >= failure_threshold /\ Exhausted) =>
    breaker[unit["c1"].provider].state = "open"

\* What holds of it: the same when every attempt raised in adapter.search,
\* and the next request is then rejected without a call until reset_timeout
\* has elapsed.
ExhaustedCallsOpen ==
  [][/\ (Exhausted' /\ failures'["rate_hawk"] >= max_retries) =>
          breaker'["rate_hawk"].state = "open"
     /\ (/\ Exhausted /\ failures["rate_hawk"] >= max_retries
         /\ "c2" \in DOMAIN unit /\ Begins("c2")
         /\ ~Due(breaker["rate_hawk"])) =>
          /\ unit'["c2"].pc = "done"
          /\ unit'["c2"].reason = "circuit_open"
          /\ unit'["c2"].exchange = "none"]_vars

\* C38: with max_retries at least 1, search_single never ends with an
\* ordinary exception: whatever the adapter raises in the preparation of the
\* request, in search, in normalize or in the filters, a task that has ended
\* has returned an outcome whose status is success or error, and only a
\* cancellation ends a task without an outcome.
C38_NeverRaises ==
  [][max_retries >= 1 =>
       \A i \in DOMAIN unit' :
         /\ unit'[i].pc \in {"created", "inflight", "sleeping", "done", "cancelled"}
         /\ unit'[i].pc = "done" => unit'[i].status \in {"success", "error"}
         /\ unit'[i].pc = "cancelled" =>
              /\ i \in DOMAIN unit
              /\ unit[i].pc = "cancelled" \/ Cancelled(i)]_vars

\* a search_single whose last attempt raised after a good answer of the
\* supplier (in normalize or in a filter) has returned an error, another
\* whose attempts all raised before any call has too
C38_Witness ==
  \E i, j \in DOMAIN unit :
    /\ unit[i].pc = "done" /\ unit[i].status = "error"
    /\ unit[i].reason \in {"timeout", "error"} /\ unit[i].exchange = "ok"
    /\ unit[j].pc = "done" /\ unit[j].status = "error"
    /\ unit[j].reason \in {"timeout", "error"} /\ unit[j].exchange = "none"

\* C39: a search_all whose hotel_names is missing or empty returns at once
\* with an empty providers map and total_offers 0, whatever suppliers it
\* names: the step creates no task and leaves every breaker, the count of
\* failed calls and the clients of the suppliers as they are.
C39_NoHotelsNoSearch ==
  [][(req.pc = "idle" /\ req'.pc # "idle" /\ ~req'.hotels) =>
       /\ req'.pc = "returned"
       /\ req'.provider_results = << >>
       /\ req'.total_offers = 0
       /\ req'.providers_to_search = << >>
       /\ unit' = << >>
       /\ breaker' = breaker
       /\ failures' = failures
       /\ pool' = pool]_vars

\* a request without hotel names that names suppliers has returned while
\* the breaker of a loaded supplier is Open and due for its lazy check
C39_Witness ==
  /\ req.pc = "returned"
  /\ ~req.hotels
  /\ req.providers # << >>
  /\ req.provider_results = << >>
  /\ unit = << >>
  /\ \E p \in DOMAIN breaker :
       breaker[p].state = "open" /\ Due(breaker[p])

====
